---- MODULE Spec2Model ----
(***************************************************************************)
(* State-machine model of atlas_meshtastic_bridge: the request deduper,    *)
(* the gateway loop, the client driver, the persistent spool and the       *)
(* chunked transport with its reliability strategies.                      *)
(*                                                                         *)
(* Time is the wall clock / monotonic clock read by the code, counted in   *)
(* whole ticks; it starts at StartTime > 0 as an epoch clock does.         *)
(***************************************************************************)
EXTENDS Integers, Sequences, FiniteSets, TLC

\* ------------------------------------------------------------------ bounds
MaxTime == 3
MaxEntries == 2
DefaultLease == 2
MaxChan == 1
ClientTimeout == 2
MaxRetries == 1
MaxAttempts == 2
BaseDelay == 1
Jitter == 0
Expiry == 1
LongExpiry == 2
LateTime == 4
SegmentSize == 2
MaxAir == 1
MaxCalls == 2
ChunkTtl == 3
PerChunkTtl == 1
ChunkTtlMax == 4
NackMaxPerSeq == 2
NackInterval == 1
MaxNack == 2

StartTime == 1

\* A missing value (Python None).
None == "None"

Min(S) == CHOOSE x \in S : \A y \in S : x <= y
Max(S) == CHOOSE x \in S : \A y \in S : x >= y

VARIABLES
    now,            \* the clock (time.time / time.monotonic)
    deduper,        \* RequestDeduper: [seen, in_progress], each an ordered dict
    gwPc,           \* position of the gateway inside run_once: "idle" | "handling"
    gwCur,          \* the request run_once holds a lease for
    gwLast,         \* history: what the latest run_once did
    windows,        \* history: dedupe windows opened by accepted requests
    ddHist,         \* history: the latest call made on the deduper by itself
    toGw,           \* envelopes in flight to the gateway
    toCl,           \* envelopes in flight to the client
    cPc,            \* position of the client inside send_request
    cEnv,           \* the client's outstanding request envelope
    cAttempt,       \* loop variable "attempt" of send_request
    cAttemptStart,  \* attempt_start
    cLastProgress,  \* last_progress
    cResult,        \* the envelope send_request returned
    cHist,          \* history: what the client's wait loop has seen
    spool,          \* PersistentSpool: [entries, file], each a dict in insertion order
    dueRes,         \* history: the latest call of due and what it returned
    cfg,            \* the sending transport's construction: enable_spool, spool_path, reliability
    active_chunks,  \* _active_chunks of the sender
    active_progress, \* _active_progress of the sender
    chunk_cache,    \* _chunk_cache and _chunk_cache_expiry of the sender
    last_progress,  \* _last_progress of the sender
    air,            \* per node, the frames the radio has for it
    reassembler,    \* per node, the MessageReassembler
    delivered,      \* per node, the set of what receive_message has returned
    hist            \* history of the sending transport

dedupeVars == <<deduper, gwPc, gwCur, gwLast, windows, ddHist>>
netVars == <<toGw, toCl>>
clientVars == <<cPc, cEnv, cAttempt, cAttemptStart, cLastProgress, cResult, cHist>>
spoolVars == <<spool, dueRes>>
trVars == <<cfg, active_chunks, active_progress, chunk_cache, last_progress, air,
            reassembler, delivered, hist>>
vars == <<now, dedupeVars, netVars, clientVars, spoolVars, trVars>>

\* --------------------------------------------------------------- deduper
\* An ordered dict is a sequence of [key, expiry], oldest first.
Keys(od) == {od[i].key : i \in 1..Len(od)}

od_pop(od, k) == SelectSeq(od, LAMBDA e : e.key # k)

od_get(od, k) == (CHOOSE e \in {od[i] : i \in 1..Len(od)} : e.key = k).expiry

\* OrderedDict.move_to_end(key)
move_to_end(od, k) == Append(od_pop(od, k), [key |-> k, expiry |-> od_get(od, k)])

\* lease_seconds or self._lease : None and 0 are both falsy, and an absent
\* lease_seconds is written 0 here.
lease_or_default(lease_seconds) ==
    IF lease_seconds = 0 THEN DefaultLease ELSE lease_seconds

\* _purge_expired that keeps every entry.
purge_expired_kept(d, t) == d

purge_expired(d, t) ==
    [seen |-> SelectSeq(d.seen, LAMBDA e : e.expiry > t),
     in_progress |-> SelectSeq(d.in_progress, LAMBDA e : e.expiry > t)]

enforce_limit(od) ==
    IF Len(od) > MaxEntries THEN SubSeq(od, Len(od) - MaxEntries + 1, Len(od)) ELSE od

RECURSIVE mark_each(_, _, _)
mark_each(seen, keys, expires_at) ==
    IF keys = <<>> THEN seen
    ELSE mark_each(Append(od_pop(seen, Head(keys)), [key |-> Head(keys), expiry |-> expires_at]),
                   Tail(keys), expires_at)

mark_seen(seen, keys, expires_at, enforce) ==
    IF enforce THEN enforce_limit(mark_each(seen, keys, expires_at))
    ELSE mark_each(seen, keys, expires_at)

\* check_keys that looks only at the leases in progress, not at the keys seen.
check_keys_unseen(d, keys, lease_seconds, t) ==
    LET lease == lease_or_default(lease_seconds)
        p == purge_expired(d, t)
        hits == {i \in 1..Len(keys) : keys[i] \in Keys(p.in_progress)}
    IN  IF hits # {}
        THEN [dup |-> TRUE, d |-> p]
        ELSE [dup |-> FALSE,
              d |-> [p EXCEPT !.seen = mark_seen(@, keys, t + lease, TRUE)]]

\* Returns [dup, d]: the answer and the deduper afterwards.
check_keys(d, keys, lease_seconds, t) ==
    LET lease == lease_or_default(lease_seconds)
        p == purge_expired(d, t)
        hits == {i \in 1..Len(keys) :
                    keys[i] \in Keys(p.in_progress) \/ keys[i] \in Keys(p.seen)}
    IN  IF hits # {}
        THEN LET k == keys[Min(hits)]
             IN  [dup |-> TRUE,
                  d |-> IF k \in Keys(p.in_progress) THEN p
                        ELSE [p EXCEPT !.seen = move_to_end(@, k)]]
        ELSE [dup |-> FALSE,
              d |-> [p EXCEPT !.seen = mark_seen(@, keys, t + lease, TRUE)]]

\* acquire_lease that grants a lease on a key that is leased already.
acquire_lease_again(d, key, lease_seconds, t) ==
    LET lease == lease_or_default(lease_seconds)
        p == purge_expired(d, t)
    IN  [ok |-> TRUE,
         d |-> [p EXCEPT !.in_progress =
                   enforce_limit(Append(od_pop(@, key), [key |-> key, expiry |-> t + lease]))]]

\* Returns [ok, d].
acquire_lease(d, key, lease_seconds, t) ==
    LET lease == lease_or_default(lease_seconds)
        p == purge_expired(d, t)
    IN  IF key \in Keys(p.in_progress) THEN [ok |-> FALSE, d |-> p]
        ELSE [ok |-> TRUE,
              d |-> [p EXCEPT !.in_progress =
                        enforce_limit(Append(@, [key |-> key, expiry |-> t + lease]))]]

\* release_lease that leaves the lease in place.
release_lease_kept(d, key, lease_seconds, t, remember) ==
    LET lease == lease_or_default(lease_seconds)
        p == purge_expired(d, t)
    IN  IF ~remember THEN p
        ELSE LET s == mark_seen(p.seen, <<key>>, t + lease, FALSE)
             IN  [p EXCEPT !.seen = IF Len(s) > MaxEntries * 2 THEN enforce_limit(s) ELSE s]

\* release_lease that never enforces the limit on the keys seen.
release_lease_unbounded(d, key, lease_seconds, t, remember) ==
    LET lease == lease_or_default(lease_seconds)
        p == purge_expired([d EXCEPT !.in_progress = od_pop(@, key)], t)
    IN  IF ~remember THEN p
        ELSE [p EXCEPT !.seen = mark_seen(@, <<key>>, t + lease, FALSE)]


release_lease(d, key, lease_seconds, t, remember) ==
    LET lease == lease_or_default(lease_seconds)
        p == purge_expired([d EXCEPT !.in_progress = od_pop(@, key)], t)
    IN  IF ~remember THEN p
        ELSE LET s == mark_seen(p.seen, <<key>>, t + lease, FALSE)
             IN  [p EXCEPT !.seen = IF Len(s) > MaxEntries * 2 THEN enforce_limit(s) ELSE s]

\* build_dedupe_keys: [message, correlation, semantic]
TaskCommands == {"acknowledge_task", "complete_task", "fail_task"}

\* A key that is None is the empty tuple here (every real key is a non-empty tuple).
NoKey == <<>>

build_dedupe_keys(sender, envelope) ==
    [message |-> <<sender, envelope.command, envelope.id>>,
     correlation |-> IF envelope.correlation_id # None /\ envelope.correlation_id # ""
                     THEN <<sender, envelope.command, "corr", envelope.correlation_id>>
                     ELSE NoKey,
     semantic |-> IF envelope.command \in TaskCommands /\ envelope.task_id # None
                  THEN <<"task", envelope.command, envelope.task_id>>
                  ELSE NoKey]

\* The key list of should_process without the secondary key.
key_list_message(sender, envelope) ==
    <<build_dedupe_keys(sender, envelope).message>>

\* The key list should_process hands to check_keys.
key_list(sender, envelope) ==
    LET keys == build_dedupe_keys(sender, envelope)
    IN  IF keys.semantic # NoKey THEN <<keys.message, keys.semantic>>
        ELSE IF keys.correlation # NoKey THEN <<keys.message, keys.correlation>>
        ELSE <<keys.message>>

KeySet(sender, envelope) ==
    {key_list(sender, envelope)[i] : i \in 1..Len(key_list(sender, envelope))}

\* should_process that lets every request through.
should_process_always(d, sender, envelope, t) ==
    LET r == check_keys(d, key_list(sender, envelope), envelope.lease_seconds, t)
    IN  [process |-> TRUE, d |-> r.d]

\* Returns [process, d].
should_process(d, sender, envelope, t) ==
    LET r == check_keys(d, key_list(sender, envelope), envelope.lease_seconds, t)
    IN  [process |-> ~r.dup, d |-> r.d]

\* --------------------------------------------------------------- gateway
\* The commands of DEFAULT_COMMAND_MAP the model uses; any other command is unknown.
CommandMap == {"test_echo", "complete_task"}

\* What the operation does: return, raise, or exceed operation_timeout_seconds.
Outcomes == {"ok", "raise", "timeout"}

Envelope(id, type, command, correlation_id, task_id, lease_seconds, attempt) ==
    [id |-> id, type |-> type, command |-> command, correlation_id |-> correlation_id,
     task_id |-> task_id, lease_seconds |-> lease_seconds, attempt |-> attempt]

\* _handle_request whose error envelope loses the correlation id.
handle_request_uncorrelated(envelope, outcome) ==
    IF envelope.command \in CommandMap /\ outcome = "ok"
    THEN Envelope(envelope.id, "response", envelope.command, envelope.correlation_id,
                  None, 0, envelope.attempt)
    ELSE Envelope(envelope.id, "error", envelope.command, None,
                  None, 0, envelope.attempt)

\* _handle_request: every failure (unknown command, raise, timeout) becomes an error envelope.
handle_request(envelope, outcome) ==
    IF envelope.command \in CommandMap /\ outcome = "ok"
    THEN Envelope(envelope.id, "response", envelope.command, envelope.correlation_id,
                  None, 0, envelope.attempt)
    ELSE Envelope(envelope.id, "error", envelope.command, envelope.correlation_id,
                  None, 0, envelope.attempt)

in_progress_key(sender, envelope) ==
    LET keys == build_dedupe_keys(sender, envelope)
    IN  IF keys.semantic # NoKey THEN keys.semantic
        ELSE IF keys.correlation # NoKey THEN keys.correlation
        ELSE keys.message

NoReq == [sender |-> None, env |-> Envelope(None, None, None, None, None, 0, 0),
          key |-> NoKey, lease |-> 0]

NoLast == [sender |-> None, env |-> Envelope(None, None, None, None, None, 0, 0),
           verdict |-> "none", key |-> NoKey,
           repeat |-> FALSE, repeatEvicted |-> FALSE,
           priorAccepted |-> FALSE, priorLive |-> FALSE,
           sent |-> <<>>]

\* History. A window [key, until, held, evicted] is opened for every dedupe key of an
\* accepted request: until is acceptance + lease, held is the later of that and
\* release + lease for the key release_lease remembers; evicted is set once the key
\* left seen through the max_entries bound while unexpired.
Evicted(before, after, t) == Keys(purge_expired(before, t).seen) \ Keys(after.seen)

NoteEvictions(ws, before, after, t) ==
    {[w EXCEPT !.evicted = @ \/ (w.key \in Evicted(before, after, t))] : w \in
        {x \in ws : x.held > t}}

\* run_once up to and including acquire_lease, for the envelope receive_message returned.
run_once_begin(sender, envelope) ==
    /\ gwPc = "idle"
    /\ UNCHANGED ddHist
    /\ LET mkey == build_dedupe_keys(sender, envelope).message
           live == {w \in windows : w.key \in KeySet(sender, envelope) /\ now < w.held}
           base == [NoLast EXCEPT !.sender = sender, !.env = envelope,
                                  !.priorAccepted = (live # {}),
                                  !.priorLive = (\E w \in live : ~w.evicted)]
       IN
       IF envelope.type # "request"
       THEN /\ gwLast' = [base EXCEPT !.verdict = "ignored"]
            /\ UNCHANGED <<deduper, gwPc, gwCur, windows>>
       ELSE LET sp == should_process(deduper, sender, envelope, now) IN
            IF ~sp.process
            THEN /\ deduper' = sp.d
                 /\ gwLast' = [base EXCEPT !.verdict = "duplicate"]
                 /\ windows' = NoteEvictions(windows, deduper, sp.d, now)
                 /\ UNCHANGED <<gwPc, gwCur>>
            ELSE LET ipk == in_progress_key(sender, envelope)
                     lease_duration == lease_or_default(envelope.lease_seconds)
                     al == acquire_lease(sp.d, ipk, lease_duration, now)
                     ws == NoteEvictions(windows, deduper, al.d, now)
                     hit == {w \in windows : w.key = mkey /\ now < w.until}
                 IN
                 IF ~al.ok
                 THEN /\ deduper' = al.d
                      /\ gwLast' = [base EXCEPT !.verdict = "lease_busy"]
                      /\ windows' = ws
                      /\ UNCHANGED <<gwPc, gwCur>>
                 ELSE /\ deduper' = al.d
                      /\ gwPc' = "handling"
                      /\ gwCur' = [sender |-> sender, env |-> envelope, key |-> ipk,
                                   lease |-> lease_duration]
                      /\ gwLast' = [base EXCEPT !.verdict = "accepted", !.key = ipk,
                                       !.repeat = (hit # {}),
                                       !.repeatEvicted = (\E w \in hit : w.evicted)]
                      /\ windows' =
                            {w \in ws : w.key \notin KeySet(sender, envelope)}
                            \cup {[key |-> k, until |-> now + lease_duration,
                                   held |-> now + lease_duration,
                                   evicted |-> FALSE] : k \in KeySet(sender, envelope)}

\* run_once from _handle_request to the finally clause.
run_once_finish(outcome, send_ok) ==
    /\ gwPc = "handling"
    /\ UNCHANGED ddHist
    /\ LET response == handle_request(gwCur.env, outcome)
           d == release_lease(deduper, gwCur.key, gwCur.lease, now, TRUE)
           ws == NoteEvictions(windows, deduper, d, now)
           old == {w \in ws : w.key = gwCur.key}
       IN  /\ gwLast' = [gwLast EXCEPT
                            !.sent = <<[dest |-> gwCur.sender, env |-> response,
                                        ok |-> send_ok]>>]
           /\ deduper' = d
           /\ windows' = (ws \ old) \cup
                  {[key |-> gwCur.key,
                    until |-> IF old = {} THEN now ELSE Max({w.until : w \in old}),
                    held |-> now + gwCur.lease,
                    evicted |-> FALSE]}
    /\ gwPc' = "idle"
    /\ gwCur' = NoReq

\* ---------------------------------------------------------------- client
GatewayNode == "gw"
ClientNode == "c1"

\* The id send_request draws (uuid4().hex[:20]).
RequestId == "r1"

\* The acceptance test without the type check.
accepts_any_type(response, original_id) ==
    response.id = original_id

\* Only accept a response or error whose id is the original id.
accepts(response, original_id) ==
    /\ response.id = original_id
    /\ response.type \in {"response", "error"}

\* The 60 s added to timeout for the overall deadline, in ticks.
OverallExtra == 3

\* send_request up to the retry loop: build the envelope.
ClientStart(command, task_id) ==
    /\ cPc = "idle"
    /\ cEnv' = Envelope(RequestId, "request", command, None, task_id, 0, 0)
    /\ cAttempt' = 0
    /\ cPc' = "send"
    /\ UNCHANGED <<cAttemptStart, cLastProgress, cResult, cHist>>

\* One pass of the for loop up to the wait loop: (backoff sleep,) tick, send_message.
\* The transport is the default one (no spool): the envelope goes to the radio at once.
ClientSend ==
    /\ cPc = "send"
    /\ Len(toGw) < MaxChan
    /\ toGw' = Append(toGw, [src |-> ClientNode, env |-> [cEnv EXCEPT !.attempt = cAttempt]])
    /\ cAttemptStart' = now
    /\ cLastProgress' = now
    /\ cPc' = "wait"
    /\ UNCHANGED <<cEnv, cAttempt, cResult, cHist, toCl>>

\* The wait loop's test that only looks at the inactivity deadline.
wait_over_inactivity(t, progress, attempt_start) ==
    t >= progress + ClientTimeout

\* The two tests that break the wait loop: inactivity_deadline and overall_deadline.
wait_over(t, progress, attempt_start) ==
    LET inactivity_deadline == progress + ClientTimeout
        overall_deadline == attempt_start + ClientTimeout + OverallExtra
    IN  t >= inactivity_deadline \/ t >= overall_deadline

\* One iteration of the wait loop.
ClientPoll ==
    /\ cPc = "wait"
    /\ IF wait_over(now, cLastProgress, cAttemptStart)
       THEN \* break: retry when attempts are left, else raise TimeoutError
            /\ IF cAttempt < MaxRetries
               THEN cAttempt' = cAttempt + 1 /\ cPc' = "send"
               ELSE cAttempt' = cAttempt /\ cPc' = "failed"
            /\ UNCHANGED <<cEnv, cAttemptStart, cLastProgress, cResult, cHist, toCl>>
       ELSE \* receive_message: an envelope when one has arrived
            /\ toCl # <<>>
            /\ LET response == Head(toCl).env
                   progressed == response.id = cEnv.id /\ now > cLastProgress
               IN  /\ toCl' = Tail(toCl)
                   /\ cLastProgress' = IF progressed THEN now ELSE cLastProgress
                   /\ IF accepts(response, cEnv.id)
                      THEN /\ cPc' = "returned"
                           /\ cResult' = response
                           /\ cHist' = [cHist EXCEPT !.polled = response]
                      ELSE /\ cPc' = "wait"
                           /\ cResult' = cResult
                           /\ cHist' = [cHist EXCEPT !.polled = response,
                                                     !.discarded = TRUE]
            /\ UNCHANGED <<cEnv, cAttempt, cAttemptStart>>
    /\ UNCHANGED toGw

\* ----------------------------------------------------------- the network
NetLoseToGw == toGw # <<>> /\ toGw' = Tail(toGw) /\ UNCHANGED toCl

NetLoseToCl == toCl # <<>> /\ toCl' = Tail(toCl) /\ UNCHANGED toGw

\* Envelopes of other conversations that reach the client's radio.
ForeignReplies ==
    {Envelope("zz", "response", "test_echo", None, None, 0, 0),
     Envelope(RequestId, "request", "test_echo", None, None, 0, 0),
     Envelope(RequestId, "ack", "test_echo", None, None, 0, 0)}

ForeignToClient(e) ==
    /\ Len(toCl) < MaxChan
    /\ toCl' = Append(toCl, [src |-> "n2", env |-> e])
    /\ UNCHANGED toGw

\* Another node's request for the same task.
OtherRequest == Envelope("x1", "request", "complete_task", None, "t", 0, 0)

ForeignToGateway ==
    /\ Len(toGw) < MaxChan
    /\ toGw' = Append(toGw, [src |-> "n2", env |-> OtherRequest])
    /\ UNCHANGED toCl

Tick == now < MaxTime /\ now' = now + 1

\* ------------------------------------------------------------------ spool
\* Message ids are <<first 8 bytes, rest>>; a chunk header carries only the first part.
IdA == <<"aaaaaaaa", "1">>
IdB == <<"bbbbbbbb", "1">>
IdC == <<"cccccccc", "1">>

\* A transport envelope; size is the length of its encoded payload in bytes.
Message(id, type, priority, size) ==
    [id |-> id, type |-> type, command |-> "test_echo", priority |-> priority, size |-> size]

\* MessageEnvelope.to_dict / from_dict: the dict has the same fields (meta and
\* correlation_id are absent when empty), data stands for the payload of that size.
to_dict(envelope) ==
    [id |-> envelope.id, type |-> envelope.type, command |-> envelope.command,
     priority |-> envelope.priority, data |-> envelope.size]

from_dict(payload) ==
    [id |-> payload.id, type |-> payload.type, command |-> payload.command,
     priority |-> payload.priority, size |-> payload.data]

\* _MAX_BACKOFF_MULTIPLIER is 16: the power of the backoff is capped at log2(16).
MaxPower == 4

RECURSIVE Pow2(_)
Pow2(n) == IF n = 0 THEN 1 ELSE 2 * Pow2(n - 1)

EntryIds(entries) == {entries[i].id : i \in 1..Len(entries)}

EntryOf(entries, id) == CHOOSE e \in {entries[i] : i \in 1..Len(entries)} : e.id = id

\* A spool that never writes its file.
flush_skipped(sp) == sp

\* _flush: the file holds what the memory holds.
flush(sp) == [sp EXCEPT !.file = sp.entries]

add(sp, envelope, destination, t) ==
    IF envelope.id \in EntryIds(sp.entries) THEN sp
    ELSE flush([sp EXCEPT !.entries = Append(@,
            [id |-> envelope.id, envelope |-> to_dict(envelope), destination |-> destination,
             attempts |-> 0, next_retry |-> t, created_at |-> t, last_activity |-> t,
             priority |-> envelope.priority])])

\* A spool file: kind says whether it exists, can be read, is UTF-8 text, parses as JSON
\* and what shape the JSON value has; entries are the entries of a file of the expected
\* shape.
SpoolFile(kind, entries) == [kind |-> kind, entries |-> entries]

\* The exceptions _load catches: json.JSONDecodeError, OSError, PermissionError.
CaughtByLoad == {"JSONDecodeError", "OSError", "PermissionError"}

\* What reading, parsing and hydrating the file raises, "" when nothing.
load_error(file) ==
    CASE file.kind = "unreadable" -> "PermissionError"
      [] file.kind = "not_utf8" -> "UnicodeDecodeError"
      [] file.kind = "not_json" -> "JSONDecodeError"
      [] file.kind \in {"json_list", "entries_list"} -> "AttributeError"
      [] file.kind \in {"entry_number", "entry_fields"} -> "TypeError"
      [] OTHER -> ""

\* SpoolEntry(**entry) for an entry of the file; last_activity defaults to created_at.
hydrate(entry) ==
    IF "last_activity" \in DOMAIN entry THEN entry
    ELSE entry @@ [last_activity |-> entry.created_at]

\* PersistentSpool.__init__ / _load: [raised, sp].
_load(file) ==
    LET empty == [entries |-> <<>>, file |-> file.entries]
        error == load_error(file)
    IN  IF file.kind = "missing" THEN [raised |-> FALSE, sp |-> empty]
        ELSE IF error # "" THEN [raised |-> error \notin CaughtByLoad, sp |-> empty]
        ELSE [raised |-> FALSE,
              sp |-> [entries |-> [i \in 1..Len(file.entries) |-> hydrate(file.entries[i])],
                      file |-> file.entries]]

\* jitter is the value random.uniform(0, jitter) returned.
mark_attempt(sp, message_id, t, jitter) ==
    IF message_id \notin EntryIds(sp.entries) THEN sp
    ELSE LET bump(e) ==
                 LET attempts == e.attempts + 1
                     power == IF attempts - 1 < MaxPower THEN attempts - 1 ELSE MaxPower
                     delay == BaseDelay * Pow2(power) + jitter
                 IN  [e EXCEPT !.attempts = attempts, !.next_retry = t + delay,
                               !.last_activity = t]
         IN  flush([sp EXCEPT !.entries =
                 [i \in 1..Len(sp.entries) |->
                     IF sp.entries[i].id = message_id THEN bump(sp.entries[i])
                     ELSE sp.entries[i]]])

\* ack that leaves the entry in place.
ack_kept(sp, message_id) == sp

ack(sp, message_id) ==
    IF message_id \in EntryIds(sp.entries)
    THEN flush([sp EXCEPT !.entries = SelectSeq(@, LAMBDA e : e.id # message_id)])
    ELSE sp

touch(sp, message_id, t) ==
    LET f(e) == [e EXCEPT !.last_activity = t]
    IN  [sp EXCEPT !.entries =
            [i \in 1..Len(sp.entries) |->
                IF sp.entries[i].id = message_id THEN f(sp.entries[i])
                ELSE sp.entries[i]]]

delay_retry(sp, message_id, delay_seconds, t) ==
    LET f(e) == [e EXCEPT !.last_activity = t,
                          !.next_retry = IF @ >= t + delay_seconds THEN @
                                         ELSE t + delay_seconds]
    IN  [sp EXCEPT !.entries =
            [i \in 1..Len(sp.entries) |->
                IF sp.entries[i].id = message_id THEN f(sp.entries[i])
                ELSE sp.entries[i]]]

\* The sort key of due's result.
SortKeyLeq(a, b) ==
    \/ a.priority < b.priority
    \/ a.priority = b.priority /\ a.next_retry <= b.next_retry

\* list.sort is stable: an entry goes after every entry whose key is not greater.
RECURSIVE insert_sorted(_, _)
insert_sorted(sorted, e) ==
    IF sorted = <<>> THEN <<e>>
    ELSE IF SortKeyLeq(Head(sorted), e) THEN <<Head(sorted)>> \o insert_sorted(Tail(sorted), e)
    ELSE <<e>> \o sorted

\* due that returns the ready entries in dict order.
sort_ready_skipped(ready) == ready

RECURSIVE sort_ready(_)
sort_ready(ready) ==
    IF ready = <<>> THEN <<>>
    ELSE insert_sorted(sort_ready(SubSeq(ready, 1, Len(ready) - 1)), ready[Len(ready)])

\* self._expiry: the configured expiry_seconds, Expiry where none is configured.
self_expiry == IF "expiry_seconds" \in DOMAIN cfg THEN cfg.expiry_seconds ELSE Expiry

\* due that skips no entry for its attempts.
attempts_left_always(e) == TRUE

\* if entry.attempts >= self._max_attempts: continue
attempts_left(e) == e.attempts < MaxAttempts

\* due(now): now_arg 0 is an absent (or zero) argument, replaced by the clock.
\* Returns [ready, sp].
due(sp, now_arg, clock) ==
    LET t == IF now_arg = 0 THEN clock ELSE now_arg
        kept == SelectSeq(sp.entries, LAMBDA e : ~(t - e.last_activity > self_expiry))
        purged == IF kept # sp.entries THEN flush([sp EXCEPT !.entries = kept]) ELSE sp
        ready == SelectSeq(kept, LAMBDA e : attempts_left(e) /\ e.next_retry <= t)
    IN  [ready |-> sort_ready(ready), sp |-> purged]

has(sp, message_id) == message_id \in EntryIds(sp.entries)

depth(sp) == Len(sp.entries)

\* -------------------------------------------------------------- message.py
FLAG_ACK == 1
FLAG_NACK == 2
HEADER_SIZE == 16

HasFlag(flags, flag) == (flags \div flag) % 2 = 1

\* The first 8 bytes of an id, as a chunk header carries them.
short_id(id) == <<id[1]>>

\* _encode_payload: the bytes of the encoded envelope, each naming the dict it encodes.
encode_payload(envelope) ==
    [k \in 1..envelope.size |-> [of |-> to_dict(envelope), byte |-> k]]

\* _decode_payload: the dict when the bytes are one whole encoding, an error otherwise.
decode_payload(encoded) ==
    IF encoded # <<>> /\ encoded = encode_payload(from_dict(encoded[1].of))
    THEN [ok |-> TRUE, dict |-> encoded[1].of]
    ELSE [ok |-> FALSE, dict |-> to_dict(Message(<<"", "">>, "", 0, 0))]

\* The chunks of an encoded payload: a 16-byte header with the short id, seq and total, and
\* one segment of at most segment_size bytes each.
chunk_encoded(encoded, id, segment_size) ==
    LET count == (Len(encoded) + segment_size - 1) \div segment_size
    IN  [index \in 1..count |->
            [flags |-> 0, id |-> short_id(id), seq |-> index, total |-> count,
             payload |-> SubSeq(encoded, (index - 1) * segment_size + 1,
                                IF index * segment_size < Len(encoded)
                                THEN index * segment_size ELSE Len(encoded)),
             ack_of |-> <<>>]]

chunk_envelope(envelope, segment_size) ==
    chunk_encoded(encode_payload(envelope), envelope.id, segment_size)

\* The text of an ACK payload is tag|arg, or the bare arg when tag is "".
Text(tag, arg) == [tag |-> tag, arg |-> arg]

\* The first 8 bytes of an ACK text.
TextPrefix(text) ==
    CASE text.tag = "" -> short_id(text.arg)
      [] text.tag = "all_received" -> <<"all_rece">>
      [] text.tag = "bitmap_req" -> <<"bitmap_r">>
      [] text.tag = "complete" -> <<"complete">>
      [] OTHER -> <<"announce">>

\* ack_of is history: the message whose reassembly made the receiver send this frame.
build_ack_chunk(text, ack_of) ==
    [flags |-> FLAG_ACK, id |-> TextPrefix(text), seq |-> 1, total |-> 1,
     payload |-> text, ack_of |-> ack_of]

\* build_nack_chunk clamps every seq into 1..65535 and keeps the first 255.
clamp_seq(seq) == IF seq < 1 THEN 1 ELSE IF seq > 65535 THEN 65535 ELSE seq

build_nack_chunk(message_prefix, missing_seqs) ==
    [flags |-> FLAG_NACK, id |-> <<message_prefix[1]>>, seq |-> 1, total |-> 1,
     payload |-> [i \in 1..(IF Len(missing_seqs) < 255 THEN Len(missing_seqs) ELSE 255) |->
                     clamp_seq(missing_seqs[i])],
     ack_of |-> <<>>]

parse_nack_payload(payload) == payload

\* A datagram parse_chunk raises ValueError for: too short for a header, or with another
\* magic or version.
Malformed == [short |-> TRUE]

\* parse_chunk: whether the datagram has a header this version reads.
parse_ok(datagram) == datagram # Malformed

\* The payload of a frame as the reassembler takes it, as bytes of a data chunk: the
\* text of an ACK and the seqs of a NACK are bytes that are no encoding of an envelope.
data_view(chunk) ==
    IF HasFlag(chunk.flags, FLAG_ACK) \/ HasFlag(chunk.flags, FLAG_NACK)
    THEN [chunk EXCEPT !.payload = <<[of |-> to_dict(Message(<<"", "">>, "", 0, 0)),
                                     byte |-> 0]>>]
    ELSE chunk

\* reconstruct_message that decodes the first segment alone.
reconstruct_message_first(segments) ==
    LET decoded == decode_payload(IF segments = <<>> THEN <<>> ELSE segments[1])
    IN  [ok |-> decoded.ok, message |-> from_dict(decoded.dict)]

\* reconstruct_message: [ok, message]; ok is FALSE when decoding raises.
reconstruct_message(segments) ==
    LET RECURSIVE join(_)
        join(ss) == IF ss = <<>> THEN <<>> ELSE Head(ss) \o join(Tail(ss))
        decoded == decode_payload(join(segments))
    IN  [ok |-> decoded.ok, message |-> from_dict(decoded.dict)]

\* ------------------------------------------------------- message.py: codec
\* A payload value is a string or a dict; a dict keeps its items in insertion order.
Str(s) == [str |-> s]
Dict(items) == [items |-> items]
IsDict(value) == "items" \in DOMAIN value

ALIAS_MAP ==
    {<<"entity_id", "e">>, <<"task_id", "ti">>, <<"object_id", "oi">>, <<"alias", "als">>,
     <<"type", "t">>, <<"subtype", "st">>, <<"status", "s">>, <<"components", "c">>,
     <<"telemetry", "tl">>, <<"health", "h">>, <<"battery_percent", "bp">>,
     <<"latitude", "lat">>, <<"longitude", "lon">>, <<"altitude_m", "alt">>,
     <<"metadata", "m">>, <<"created_at", "ca">>, <<"updated_at", "ua">>, <<"note", "n">>,
     <<"reason", "r">>, <<"status_filter", "sf">>, <<"since", "sn">>, <<"fields", "f">>,
     <<"limit", "l">>, <<"offset", "o">>, <<"cursor", "cur">>, <<"result", "res">>}

REVERSE_ALIAS_MAP == {<<p[2], p[1]>> : p \in ALIAS_MAP}

ENVELOPE_ALIAS_MAP ==
    {<<"command", "cmd">>, <<"data", "d">>, <<"id", "i">>, <<"type", "t">>,
     <<"correlation_id", "cid">>}

REVERSE_ENVELOPE_MAP == {<<p[2], p[1]>> : p \in ENVELOPE_ALIAS_MAP}

\* map.get(key, key)
alias_get(map, key) ==
    IF \E p \in map : p[1] = key THEN (CHOOSE p \in map : p[1] = key)[2] ELSE key

\* Timestamps _TS_RE matches: one with fractional seconds and the same one without.
TsFraction == "2026-01-05T03:29:01.433990+00:00"
TsWhole == "2026-01-05T03:29:01+00:00"

\* _TS_RE rewrites a matching string to its prefix and suffix groups; any other string
\* does not match.
strip_fraction(text) == IF text = TsFraction THEN TsWhole ELSE text

_normalize_value(key, value) ==
    IF ~IsDict(value) /\ key \in {"created_at", "updated_at", "ca", "ua"}
    THEN Str(strip_fraction(value.str))
    ELSE value

\* mapped[key] = val on a dict that keeps insertion order.
dict_set(items, key, val) ==
    IF \E i \in 1..Len(items) : items[i][1] = key
    THEN [i \in 1..Len(items) |-> IF items[i][1] = key THEN <<key, val>> ELSE items[i]]
    ELSE Append(items, <<key, val>>)

RECURSIVE _alias_payload(_, _)
_alias_payload(value, encode) ==
    LET RECURSIVE over(_, _)
        over(items, mapped) ==
            IF items = <<>> THEN mapped
            ELSE LET key == Head(items)[1]
                     val == Head(items)[2]
                     new_key == alias_get(IF encode THEN ALIAS_MAP ELSE REVERSE_ALIAS_MAP, key)
                     normalized_val == IF encode THEN _normalize_value(key, val) ELSE val
                 IN  over(Tail(items),
                          dict_set(mapped, new_key, _alias_payload(normalized_val, encode)))
    IN  IF IsDict(value) THEN Dict(over(value.items, <<>>)) ELSE value

\* A MessageEnvelope with its data and meta; size is the length of its encoded payload.
MessageEnvelope(id, type, command, priority, correlation_id, data, meta, size) ==
    [id |-> id, type |-> type, command |-> command, priority |-> priority,
     correlation_id |-> correlation_id, data |-> data, meta |-> meta, size |-> size]

\* MessageEnvelope.to_dict with meta and correlation_id left out when empty.
envelope_to_dict(envelope) ==
    LET base == [id |-> envelope.id, type |-> envelope.type, command |-> envelope.command,
                 priority |-> envelope.priority, data |-> envelope.data]
        with_meta == IF envelope.meta.items # <<>>
                     THEN base @@ [meta |-> envelope.meta] ELSE base
    IN  IF envelope.correlation_id # None
        THEN with_meta @@ [correlation_id |-> envelope.correlation_id] ELSE with_meta

\* MessageEnvelope.from_dict: missing meta, correlation_id and priority take defaults.
envelope_from_dict(payload, size) ==
    MessageEnvelope(payload.id, payload.type, payload.command,
                    IF "priority" \in DOMAIN payload THEN payload.priority ELSE 10,
                    IF "correlation_id" \in DOMAIN payload
                    THEN payload.correlation_id ELSE None,
                    IF "data" \in DOMAIN payload THEN payload.data ELSE Dict(<<>>),
                    IF "meta" \in DOMAIN payload THEN payload.meta ELSE Dict(<<>>),
                    size)

\* The top-level keys of a dict renamed by an alias map.
rename_keys(map, dict) ==
    [new_key \in {alias_get(map, k) : k \in DOMAIN dict} |->
        dict[CHOOSE k \in DOMAIN dict : alias_get(map, k) = new_key]]

\* _encode_payload: the bytes of the packed and compressed aliased dict; each byte names
\* the dict it is part of and the length of the whole encoding.
_encode_payload(envelope) ==
    LET raw == envelope_to_dict(envelope)
        aliased == rename_keys(ENVELOPE_ALIAS_MAP,
                               [raw EXCEPT !.data = _alias_payload(raw.data, TRUE)])
    IN  [k \in 1..envelope.size |-> [of |-> aliased, byte |-> k, len |-> envelope.size]]

\* _decode_payload: [ok, dict]; decompression raises unless the bytes are one whole encoding.
_decode_payload(encoded) ==
    LET whole == /\ encoded # <<>>
                 /\ Len(encoded) = encoded[1].len
                 /\ \A k \in 1..Len(encoded) :
                        encoded[k].byte = k /\ encoded[k].of = encoded[1].of
        envelope_dict == rename_keys(REVERSE_ENVELOPE_MAP, encoded[1].of)
    IN  IF whole
        THEN [ok |-> TRUE,
              dict |-> IF "data" \in DOMAIN envelope_dict
                       THEN [envelope_dict EXCEPT !.data = _alias_payload(envelope_dict.data, FALSE)]
                       ELSE envelope_dict]
        ELSE [ok |-> FALSE, dict |-> <<>>]

\* chunk_envelope and reconstruct_message over the codec above.
chunk_message(envelope, segment_size) ==
    chunk_encoded(_encode_payload(envelope), envelope.id, segment_size)

reconstruct_envelope(segments) ==
    LET RECURSIVE join(_)
        join(ss) == IF ss = <<>> THEN <<>> ELSE Head(ss) \o join(Tail(ss))
        encoded == join(segments)
        decoded == _decode_payload(encoded)
    IN  IF decoded.ok
        THEN [ok |-> TRUE, message |-> envelope_from_dict(decoded.dict, Len(encoded))]
        ELSE [ok |-> FALSE,
              message |-> MessageEnvelope(<<"", "">>, "", "", 0, None, Dict(<<>>), Dict(<<>>), 0)]

\* ----------------------------------------------------------- reassembly.py
FnSet(f, k, v) == [x \in (DOMAIN f) \cup {k} |-> IF x = k THEN v ELSE f[x]]

FnDel(f, k) == [x \in (DOMAIN f) \ {k} |-> f[x]]

SortedSeq(S) ==
    LET RECURSIVE build(_)
        build(T) == IF T = {} THEN <<>> ELSE <<Min(T)>> \o build(T \ {Min(T)})
    IN  build(S)

NewReassembler == [buckets |-> <<>>, nack_state |-> <<>>, nack_counts |-> <<>>]

NoMessage == Message(<<"", "">>, "", 0, 0)

effective_ttl(total_chunks) ==
    LET per_chunk == IF ChunkTtl >= PerChunkTtl THEN PerChunkTtl ELSE 0
        max_ttl == Max({ChunkTtlMax, ChunkTtl})
        dynamic_ttl == ChunkTtl + Max({0, total_chunks - 1}) * per_chunk
    IN  Min({max_ttl, Max({ChunkTtl, dynamic_ttl})})

should_nack(r, chunk_id, missing, t) ==
    IF chunk_id \notin DOMAIN r.nack_state THEN TRUE
    ELSE IF missing # r.nack_state[chunk_id].missing THEN TRUE
    ELSE t - r.nack_state[chunk_id].at >= NackInterval

\* A reassembler whose buckets never age.
bucket_expired_never(bucket, t) == FALSE

\* now - bucket["created"] > bucket["ttl"]
bucket_expired(bucket, t) == t - bucket.created > bucket.ttl

\* _add_chunk: [message, complete, raised, missing, r]; missing <<>> stands for None.
add_chunk(r, chunk, t) ==
    LET chunk_id == chunk.id
        fresh == [received |-> <<>>, total |-> chunk.total, created |-> t,
                  ttl |-> effective_ttl(chunk.total)]
        b0 == IF chunk_id \in DOMAIN r.buckets THEN r.buckets[chunk_id] ELSE fresh
        b1 == IF effective_ttl(chunk.total) > b0.ttl
              THEN [b0 EXCEPT !.ttl = effective_ttl(chunk.total)] ELSE b0
        counts0 == IF chunk_id \in DOMAIN r.nack_counts THEN r.nack_counts
                   ELSE FnSet(r.nack_counts, chunk_id, <<>>)
        nothing == [message |-> NoMessage, complete |-> FALSE, raised |-> FALSE,
                    missing |-> <<>>, r |-> r]
    IN  IF chunk.seq \in DOMAIN b1.received
        THEN [nothing EXCEPT !.r = [r EXCEPT !.buckets = FnSet(@, chunk_id, b1),
                                             !.nack_counts = counts0]]
        ELSE
        LET b2 == [b1 EXCEPT !.received = FnSet(@, chunk.seq, chunk.payload),
                             !.total = chunk.total]
            received_indices == DOMAIN b2.received
            expected_indices == 1..b2.total
        IN  IF bucket_expired(b2, t)
            THEN [nothing EXCEPT !.r = [r EXCEPT !.buckets = FnDel(@, chunk_id),
                                                 !.nack_counts = counts0]]
            ELSE IF Cardinality(received_indices) = b2.total
            THEN IF expected_indices # received_indices
                 THEN [nothing EXCEPT !.r = [r EXCEPT !.buckets = FnDel(@, chunk_id),
                                                      !.nack_counts = FnDel(counts0, chunk_id)]]
                 ELSE LET m == reconstruct_message([i \in 1..b2.total |-> b2.received[i]])
                      IN  [message |-> m.message, complete |-> m.ok, raised |-> ~m.ok,
                           missing |-> <<>>,
                           r |-> [buckets |-> FnDel(r.buckets, chunk_id),
                                  nack_counts |-> FnDel(counts0, chunk_id),
                                  nack_state |-> FnDel(r.nack_state, chunk_id)]]
            ELSE
            LET highest == Max(received_indices)
                missing_set == {seq \in expected_indices :
                                   seq \notin received_indices /\ seq < highest}
                r1 == [r EXCEPT !.buckets = FnSet(@, chunk_id, b2), !.nack_counts = counts0]
            IN  IF missing_set # {} /\ should_nack(r, chunk_id, missing_set, t)
                THEN LET counts == counts0[chunk_id]
                         attempts(seq) == IF seq \in DOMAIN counts THEN counts[seq] ELSE 0
                         filtered == {seq \in missing_set : attempts(seq) < NackMaxPerSeq}
                         bumped == [seq \in (DOMAIN counts) \cup filtered |->
                                       IF seq \in filtered THEN attempts(seq) + 1
                                       ELSE counts[seq]]
                     IN  [nothing EXCEPT
                             !.missing = SortedSeq(filtered),
                             !.r = [r1 EXCEPT
                                      !.nack_counts = FnSet(counts0, chunk_id, bumped),
                                      !.nack_state =
                                          IF filtered # {}
                                          THEN FnSet(@, chunk_id,
                                                     [missing |-> filtered, at |-> t])
                                          ELSE @]]
                ELSE [nothing EXCEPT !.r = r1]

\* missing_sequences that lists the trailing gap without force as well.
missing_sequences_forced(r, chunk_id, force) ==
    IF chunk_id \notin DOMAIN r.buckets THEN <<>>
    ELSE SortedSeq((1..r.buckets[chunk_id].total) \ DOMAIN r.buckets[chunk_id].received)

\* missing_sequences(chunk_id, force=...) or [] : <<>> also when there is no bucket.
missing_sequences(r, chunk_id, force) ==
    IF chunk_id \notin DOMAIN r.buckets THEN <<>>
    ELSE LET b == r.buckets[chunk_id]
             received_indices == DOMAIN b.received
             highest == IF received_indices = {} THEN 0 ELSE Max(received_indices)
         IN  SortedSeq({seq \in (1..b.total) \ received_indices : force \/ seq < highest})

\* prune
prune(r, t) ==
    LET expired == {id \in DOMAIN r.buckets : bucket_expired(r.buckets[id], t)}
    IN  [buckets |-> [id \in (DOMAIN r.buckets) \ expired |-> r.buckets[id]],
         nack_state |-> [id \in (DOMAIN r.nack_state) \ expired |-> r.nack_state[id]],
         nack_counts |-> [id \in (DOMAIN r.nack_counts) \ expired |-> r.nack_counts[id]]]

\* History of a reassembler: fed and again hold the chunks fed so far and those fed more
\* than once; since gives, per message id, when its first chunk was fed; out holds the
\* envelopes returned; shadow is a second reassembler that is fed every chunk the first
\* time only, shadowOut the envelopes it returned; extra says that feeding a chunk again
\* returned an envelope; last describes the latest add_chunk_with_missing: what it returned, and what
\* missing_sequences says of the chunk's bucket right after it.
NoFeed == [fed |-> FALSE, chunk_id |-> <<>>, of |-> <<>>, seq |-> 0, at |-> 0,
           message |-> NoMessage, complete |-> FALSE, raised |-> FALSE, missing |-> <<>>,
           received |-> {}, unforced |-> <<>>, forced |-> <<>>]

NoRa == [fed |-> {}, again |-> {}, since |-> <<>>, out |-> {},
         shadow |-> NewReassembler, shadowOut |-> {}, extra |-> FALSE, last |-> NoFeed]

\* ------------------------------------------------------------ transport.py
MAX_CHUNK_SIZE == 230
MIN_SEGMENT_SIZE == 50
SEGMENT_SIZE_REDUCTION == 50

Sender == "S"
Receiver == "R"

\* The number of frames the radio holds for a node, MaxAir where none is configured.
air_capacity == IF "air_capacity" \in DOMAIN cfg THEN cfg.air_capacity ELSE MaxAir

\* radio.send: the frame is on the air for dest, unless the air is full and it is lost.
radio_send(a, dest, from, chunk) ==
    [a EXCEPT ![dest] = IF Len(@) < air_capacity THEN Append(@, [from |-> from, chunk |-> chunk])
                        ELSE @]

RECURSIVE send_all(_, _, _, _)
send_all(a, dest, from, chunks) ==
    IF chunks = <<>> THEN a
    ELSE send_all(radio_send(a, dest, from, Head(chunks)), dest, from, Tail(chunks))

ProgressTtl == Max({ChunkTtlMax, ChunkTtl, 1})

\* _record_progress
record_progress(lp, chunk, t) ==
    LET set == FnSet(lp, chunk.id, [seq |-> chunk.seq, total |-> chunk.total, timestamp |-> t,
                                     is_ack |-> HasFlag(chunk.flags, FLAG_ACK)])
    IN  [k \in {x \in DOMAIN set : ~(set[x].timestamp < t - ProgressTtl)} |-> set[k]]

\* self.segment_size: the configured segment size, SegmentSize where none is configured.
self_segment_size == IF "segment_size" \in DOMAIN cfg THEN cfg.segment_size ELSE SegmentSize

\* _get_or_create_chunks for an id that has no chunks yet.
create_chunks(envelope) ==
    LET chunks == chunk_envelope(envelope, self_segment_size)
        oversized == {i \in 1..Len(chunks) :
                         HEADER_SIZE + Len(chunks[i].payload) > MAX_CHUNK_SIZE}
    IN  IF oversized # {}
        THEN chunk_envelope(envelope, Max({MIN_SEGMENT_SIZE,
                                           self_segment_size - SEGMENT_SIZE_REDUCTION}))
        ELSE chunks

_drop_chunk_cache(cache, message_prefix) == FnDel(cache, message_prefix)

_prune_chunk_cache(cache, t) ==
    [k \in {x \in DOMAIN cache : ~(cache[x].expiry < t)} |-> cache[k]]

\* _handle_nack: [sent, cache], sent being the chunks handed to the radio.
_handle_nack(cache, message_prefix, missing, t) ==
    LET pruned == _prune_chunk_cache(cache, t)
    IN  IF message_prefix \notin DOMAIN pruned \/ pruned[message_prefix].chunks = <<>>
        THEN [sent |-> <<>>, cache |-> pruned]
        ELSE LET chunks == pruned[message_prefix].chunks
                 RECURSIVE pick(_)
                 pick(seqs) ==
                     IF seqs = <<>> THEN <<>>
                     ELSE (IF Head(seqs) \in DOMAIN chunks THEN <<chunks[Head(seqs)]>>
                           ELSE <<>>) \o pick(Tail(seqs))
             IN  [sent |-> pick(missing),
                  cache |-> [pruned EXCEPT ![message_prefix].expiry = t + ProgressTtl]]

\* ------------------------------------------------------ reliability/base.py
Strategies == {"simple", "window"}

FirstN(seq, n) == SubSeq(seq, 1, IF Len(seq) < n THEN Len(seq) ELSE n)

on_send(strategy, envelope, total_chunks) ==
    IF strategy = "stage" THEN <<build_ack_chunk(Text("announce", envelope.id), <<>>)>>
    ELSE <<>>

\* ParityWindowStrategy derives from WindowedSelectiveStrategy.
Windowed(strategy) == strategy \in {"window", "window_fec"}

\* The duplicate ParityWindowStrategy.on_chunks_sent sends: the chunk with the highest
\* seq of what transport._chunk_cache holds for the first 8 bytes of the id.
parity_duplicate(cache, envelope) ==
    LET prefix == short_id(envelope.id)
    IN  IF prefix \in DOMAIN cache /\ DOMAIN cache[prefix].chunks # {}
        THEN <<cache[prefix].chunks[Max(DOMAIN cache[prefix].chunks)]>>
        ELSE <<>>

on_chunks_sent(strategy, envelope, total_chunks) ==
    (IF Windowed(strategy) /\ total_chunks # 1
     THEN <<build_ack_chunk(Text("bitmap_req", envelope.id), <<>>)>>
     ELSE IF strategy = "stage" THEN <<build_ack_chunk(Text("complete", envelope.id), <<>>)>>
     ELSE <<>>)
    \o (IF strategy = "window_fec" THEN parity_duplicate(chunk_cache, envelope) ELSE <<>>)

on_missing(strategy, chunk_id, missing) ==
    IF missing = <<>> \/ strategy = "none" THEN <<>>
    ELSE IF Windowed(strategy) THEN <<build_nack_chunk(chunk_id, FirstN(missing, MaxNack))>>
    ELSE <<build_nack_chunk(chunk_id, missing)>>

on_complete(strategy, message) ==
    IF Windowed(strategy)
    THEN <<build_ack_chunk(Text("all_received", message.id), message.id)>>
    ELSE IF strategy = "simple"
    THEN <<build_ack_chunk(Text("", message.id), message.id)>>
    ELSE <<>>

\* (name or "").strip().lower() for the names below.
lowered(name) ==
    CASE name = None -> ""
      [] name = "NONE" -> "none"
      [] name = " Simple " -> "simple"
      [] OTHER -> name

\* strategy_from_name: the name attribute of the strategy it returns.
strategy_from_name(name) ==
    IF lowered(name) \in {"simple", "ack", "ack_nack"} THEN "simple"
    ELSE IF lowered(name) \in {"stage", "staged"} THEN "stage"
    ELSE IF lowered(name) \in {"window", "selective", "selective_repeat"} THEN "window"
    ELSE IF lowered(name) \in {"window_fec", "window_parity", "selective_fec"} THEN "window_fec"
    ELSE "window"

\* The id a simple ACK names: the whole payload text (ids carry no surrounding
\* whitespace, so strip() leaves them alone); a tagged text is no message's id.
simple_ack_id(text) == IF text.tag = "" THEN text.arg ELSE <<text.tag>>

\* handle_control of the strategy, for a node with state
\* st = [has_spool, spool, cache, r]: [handled, out, spool, cache, nack].
handle_control(strategy, chunk, st, t) ==
    LET no == [handled |-> FALSE, out |-> <<>>, spool |-> st.spool, cache |-> st.cache,
               nack |-> <<>>, resent |-> <<>>]
        nacked == LET missing == parse_nack_payload(chunk.payload)
                      hn == _handle_nack(st.cache, chunk.id, missing, t)
                  IN  [no EXCEPT !.handled = TRUE, !.out = hn.sent, !.cache = hn.cache,
                                 !.nack = missing, !.resent = hn.sent]
        acked(msg_id) ==
            [no EXCEPT !.handled = TRUE,
                       !.cache = _drop_chunk_cache(st.cache, chunk.id),
                       !.spool = IF st.has_spool /\ msg_id # <<>> THEN ack(st.spool, msg_id)
                                 ELSE st.spool]
    IN  IF strategy = "none"
        THEN IF HasFlag(chunk.flags, FLAG_ACK) \/ HasFlag(chunk.flags, FLAG_NACK)
             THEN [no EXCEPT !.handled = TRUE]
             ELSE no
        ELSE IF strategy = "simple"
        THEN IF HasFlag(chunk.flags, FLAG_NACK) THEN nacked
             ELSE IF HasFlag(chunk.flags, FLAG_ACK) THEN acked(simple_ack_id(chunk.payload))
             ELSE no
        ELSE IF strategy = "stage"
        THEN IF ~HasFlag(chunk.flags, FLAG_ACK)
             THEN IF HasFlag(chunk.flags, FLAG_NACK) THEN nacked ELSE no
             ELSE IF chunk.payload.tag = "announce"
             THEN [no EXCEPT !.handled = TRUE,
                             !.out = <<build_ack_chunk(Text("announce_ack", chunk.id), <<>>)>>]
             ELSE IF chunk.payload.tag = "complete"
             THEN LET missing == missing_sequences(st.r, chunk.id, TRUE)
                  IN  [no EXCEPT !.handled = TRUE,
                                 !.out = IF missing # <<>>
                                         THEN <<build_nack_chunk(chunk.id, missing)>>
                                         ELSE <<build_ack_chunk(Text("all_received", chunk.id), <<>>)>>]
             ELSE IF chunk.payload.tag = "all_received" THEN acked(chunk.payload.arg)
             ELSE IF chunk.payload.tag = "announce_ack" THEN [no EXCEPT !.handled = TRUE]
             ELSE no
        ELSE IF HasFlag(chunk.flags, FLAG_NACK) THEN nacked
             ELSE IF ~HasFlag(chunk.flags, FLAG_ACK) THEN no
             ELSE IF chunk.payload.tag = "bitmap_req"
             THEN LET missing == missing_sequences(st.r, chunk.id, TRUE)
                  IN  [no EXCEPT !.handled = TRUE,
                                 !.out = IF missing # <<>>
                                         THEN <<build_nack_chunk(chunk.id, FirstN(missing, MaxNack))>>
                                         ELSE <<build_ack_chunk(Text("all_received", chunk.id), <<>>)>>]
             ELSE IF chunk.payload.tag = "all_received"
             THEN acked(IF chunk.payload.arg # <<>> THEN chunk.payload.arg ELSE chunk.id)
             ELSE no

\* ------------------------------------------------ the transport's operations
NoCall == [op |-> "none", env |-> NoMessage, returned |-> FALSE, spooled |-> FALSE,
           handed |-> <<>>]
NoNack == [seen |-> FALSE, prefix |-> <<>>, missing |-> <<>>, resent |-> <<>>]
NoTick == [ticked |-> FALSE, first |-> <<>>, sent |-> <<>>, after |-> <<>>]
NoAttempt == [id |-> <<>>, how |-> "none", log |-> <<>>, total |-> 0]
NoRx == [seen |-> FALSE, datagram |-> Malformed, handled |-> FALSE, fed |-> FALSE,
         returned |-> FALSE, raised |-> FALSE, kept |-> TRUE, node |-> "", out |-> <<>>]

\* What add_chunk_with_missing has returned for one message: nacked maps every missing
\* list returned so far to the time it was last returned; missing and at are the list and
\* time of the latest call, prev the time the same list was returned before (-1: never),
\* done whether the message has been reassembled.
NoThrottle == [nacked |-> <<>>, missing |-> <<>>, at |-> 0, prev |-> -1, done |-> FALSE]

\* History: calls counts enqueue and send_message calls; acked holds the ids whose
\* completion ACK the sender has handled since they were last added; txLog holds, per id,
\* the seqs handed to the radio in the running attempt; the last* fields describe the
\* latest step only; lastTick.after holds the frames on_chunks_sent handed to the radio.
\* rxRaised says that a call of receive_message has raised; lastRx describes the frame
\* the latest pass of receive_message took: whether handle_control consumed it, whether
\* it went to the reassembler, whether it was returned as a message, whether the pass
\* raised, whether spool and chunk cache are as before, the node that took it and the
\* frames that node sent in reply.
\* The latest spool operation (op) and its _flush: flushed says it called _flush, ok that
\* the write went through; torn says the file holds a partial write, stale that a write
\* has failed and none has gone through since.
NoFlush == [op |-> "", flushed |-> FALSE, ok |-> FALSE, torn |-> FALSE, stale |-> FALSE]

\* The gateway's thread of run_forever: pc is its position ("created" before the call,
\* "loop" at the test of the while, "run_once" inside run_once, "returned" after the
\* loop), running is self._running, stopped says that stop() has been called.
NoRun == [pc |-> "created", running |-> FALSE, stopped |-> FALSE]

NoHist == [calls |-> 0, acked |-> {}, txLog |-> <<>>, lastCall |-> NoCall,
           lastNack |-> NoNack, lastTick |-> NoTick, lastAttempt |-> NoAttempt,
           ra |-> NoRa, rxRaised |-> FALSE, lastRx |-> NoRx, throttle |-> NoThrottle,
           flush |-> NoFlush, run |-> NoRun]

Fresh(h) == [h EXCEPT !.lastCall = NoCall, !.lastNack = NoNack, !.lastTick = NoTick,
                      !.lastAttempt = NoAttempt, !.lastRx = NoRx]

\* enqueue(envelope, destination)
enqueue(envelope, destination, caller) ==
    LET track_spool == cfg.enable_spool /\ cfg.has_spool
                       /\ envelope.type \notin {"ack", "response"}
        sp == IF track_spool THEN add(spool, envelope, destination, now) ELSE spool
        added == envelope.id \in EntryIds(sp.entries) \ EntryIds(spool.entries)
    IN  /\ spool' = sp
        /\ hist' = [Fresh(hist) EXCEPT
                      !.calls = @ + 1,
                      !.acked = IF added THEN @ \ {envelope.id} ELSE @,
                      !.txLog = IF added THEN FnDel(@, envelope.id) ELSE @,
                      !.lastCall = [op |-> caller, env |-> envelope, returned |-> TRUE,
                                    spooled |-> envelope.id \in EntryIds(sp.entries),
                                    handed |-> <<>>]]
        /\ UNCHANGED air

\* send_message(envelope, destination); send_ok is FALSE when radio.send raises.
send_message(envelope, destination, send_ok) ==
    IF cfg.enable_spool /\ cfg.has_spool
    THEN enqueue(envelope, destination, "send_message")
    ELSE LET chunks == chunk_envelope(envelope, self_segment_size)
             handed == IF send_ok THEN chunks ELSE <<>>
         IN  /\ air' = send_all(air, destination, Sender, handed)
             /\ hist' = [Fresh(hist) EXCEPT
                           !.calls = @ + 1,
                           !.lastCall = [op |-> "send_message", env |-> envelope,
                                         returned |-> send_ok, spooled |-> FALSE,
                                         handed |-> handed]]
             /\ UNCHANGED spool

\* tick / _tick_transmit; jitter is what random.uniform returns inside mark_attempt.
_tick_transmit(send_ok, jitter) ==
    LET d == due(spool, 0, now) IN
    IF d.ready = <<>>
    THEN /\ spool' = d.sp
         /\ hist' = [Fresh(hist) EXCEPT
                        !.lastTick = [NoTick EXCEPT !.ticked = TRUE],
                        !.txLog = [k \in (DOMAIN @) \cap EntryIds(d.sp.entries) |-> @[k]]]
         /\ UNCHANGED <<air, active_chunks, active_progress>>
    ELSE
    LET entry == d.ready[1]
        msg_id == entry.id
        envelope == from_dict(entry.envelope)
        chunks == IF msg_id \in DOMAIN active_chunks THEN active_chunks[msg_id]
                  ELSE create_chunks(envelope)
        next_seq == IF msg_id \in DOMAIN active_progress THEN active_progress[msg_id] ELSE 1
        air1 == IF next_seq = 1
                THEN send_all(air, entry.destination, Sender,
                              on_send(cfg.strategy, envelope, Len(chunks)))
                ELSE air
        log == IF msg_id \in DOMAIN hist.txLog THEN hist.txLog[msg_id] ELSE <<>>
        kept(tx) == [k \in (DOMAIN tx) \cap EntryIds(d.sp.entries) |-> tx[k]]
        tick == [ticked |-> TRUE, first |-> msg_id, sent |-> <<>>, after |-> <<>>]
        hook == on_chunks_sent(cfg.strategy, envelope, Len(chunks))
    IN  IF next_seq > Len(chunks)
        THEN /\ air' = send_all(air1, entry.destination, Sender, hook)
             /\ spool' = mark_attempt(d.sp, msg_id, now, jitter)
             /\ active_chunks' = FnDel(active_chunks, msg_id)
             /\ active_progress' = FnDel(active_progress, msg_id)
             /\ hist' = [Fresh(hist) EXCEPT
                           !.lastTick = [tick EXCEPT !.after = hook],
                           !.txLog = FnDel(kept(@), msg_id),
                           !.lastAttempt = [id |-> msg_id, how |-> "complete", log |-> log,
                                            total |-> Len(chunks)]]
        ELSE IF send_ok
        THEN /\ air' = radio_send(air1, entry.destination, Sender, chunks[next_seq])
             /\ active_chunks' = FnSet(active_chunks, msg_id, chunks)
             /\ active_progress' = FnSet(active_progress, msg_id, next_seq + 1)
             /\ spool' = touch(d.sp, msg_id, now)
             /\ hist' = [Fresh(hist) EXCEPT
                           !.lastTick = [tick EXCEPT !.sent = <<chunks[next_seq]>>],
                           !.txLog = FnSet(kept(@), msg_id, Append(log, next_seq))]
        ELSE /\ air' = air1
             /\ spool' = mark_attempt(d.sp, msg_id, now, jitter)
             /\ active_chunks' = FnDel(active_chunks, msg_id)
             /\ active_progress' = FnDel(active_progress, msg_id)
             /\ hist' = [Fresh(hist) EXCEPT
                           !.lastTick = tick,
                           !.txLog = FnDel(kept(@), msg_id),
                           !.lastAttempt = [id |-> msg_id, how |-> "failed", log |-> log,
                                            total |-> Len(chunks)]]

\* One pass of the loop of receive_message at node n, for a frame the radio has. A frame
\* parse_chunk rejects is skipped; one handle_control does not consume goes to the
\* reassembler, and an error of reconstruct_message leaves receive_message as an exception.
receive_message(n) ==
    /\ air[n] # <<>>
    /\ LET frame == Head(air[n])
           rest == [air EXCEPT ![n] = Tail(@)]
       IN  IF ~parse_ok(frame.chunk)
           THEN /\ air' = rest
                /\ hist' = [Fresh(hist) EXCEPT
                              !.lastRx = [NoRx EXCEPT !.seen = TRUE, !.node = n]]
                /\ UNCHANGED <<last_progress, spool, chunk_cache, reassembler, delivered>>
           ELSE
           LET chunk == frame.chunk
               owner == n = Sender /\ cfg.has_spool
               hc == handle_control(cfg.strategy, chunk,
                                    [has_spool |-> owner, spool |-> spool,
                                     cache |-> IF n = Sender THEN chunk_cache ELSE <<>>,
                                     r |-> reassembler[n]], now)
           IN  /\ last_progress' = IF n = Sender
                                   THEN record_progress(last_progress, chunk, now)
                                   ELSE last_progress
               /\ IF hc.handled
                  THEN /\ air' = send_all(rest, frame.from, n, hc.out)
                       /\ spool' = IF owner THEN hc.spool ELSE spool
                       /\ chunk_cache' = IF n = Sender THEN hc.cache ELSE chunk_cache
                       /\ hist' =
                             LET rx == [NoRx EXCEPT
                                          !.seen = TRUE, !.datagram = chunk, !.handled = TRUE,
                                          !.node = n, !.out = hc.out,
                                          !.kept = (owner => hc.spool = spool)
                                                   /\ (n = Sender => hc.cache = chunk_cache)]
                             IN  IF n # Sender THEN [Fresh(hist) EXCEPT !.lastRx = rx]
                                 ELSE [Fresh(hist) EXCEPT
                                         !.acked = IF HasFlag(chunk.flags, FLAG_ACK)
                                                      /\ chunk.ack_of # <<>>
                                                   THEN @ \cup {chunk.ack_of} ELSE @,
                                         !.txLog = [k \in (DOMAIN @)
                                                        \cap EntryIds(hc.spool.entries) |-> @[k]],
                                         !.lastNack =
                                             IF HasFlag(chunk.flags, FLAG_NACK)
                                             THEN [seen |-> TRUE, prefix |-> chunk.id,
                                                   missing |-> hc.nack,
                                                   resent |-> [i \in 1..Len(hc.resent) |->
                                                                  hc.resent[i].seq]]
                                             ELSE NoNack,
                                         !.lastRx = rx]
                       /\ UNCHANGED <<reassembler, delivered>>
                  ELSE LET ac == add_chunk(reassembler[n], data_view(chunk), now)
                           replies == on_missing(cfg.strategy, chunk.id, ac.missing)
                                      \o (IF ac.complete
                                          THEN on_complete(cfg.strategy, ac.message)
                                          ELSE <<>>)
                       IN  /\ reassembler' = [reassembler EXCEPT ![n] = ac.r]
                           /\ air' = send_all(rest, frame.from, n, replies)
                           /\ delivered' = IF ac.complete
                                           THEN [delivered EXCEPT ![n] =
                                                   @ \cup {[sender |-> frame.from,
                                                             message |-> ac.message]}]
                                           ELSE delivered
                           /\ hist' = [Fresh(hist) EXCEPT
                                         !.rxRaised = @ \/ ac.raised,
                                         !.lastRx = [NoRx EXCEPT
                                                       !.seen = TRUE, !.datagram = chunk,
                                                       !.node = n, !.out = replies,
                                                       !.fed = TRUE, !.returned = ac.complete,
                                                       !.raised = ac.raised]]
                           /\ UNCHANGED <<spool, chunk_cache>>

\* ------------------------------------------------- specification: gateway
\* Any sequence of envelopes is delivered to the gateway.
GwSenders == {"n1"}

GwEnvelopes ==
    {Envelope("a", "request", "test_echo", None, None, 0, 0),
     Envelope("b", "request", "test_echo", "k", None, 1, 0),
     Envelope("a", "request", "complete_task", None, "t", 0, 0),
     Envelope("b", "request", "complete_task", None, "t", 0, 0),
     Envelope("a", "request", "nope", None, None, 0, 0),
     Envelope("a", "response", "test_echo", None, None, 0, 0)}

NoDd == [op |-> "none", at |-> 0, keys |-> {}, lease |-> 0, result |-> FALSE,
         priorOpen |-> FALSE, priorLive |-> FALSE,
         leases |-> {}, leaseOpen |-> FALSE, leaseLive |-> FALSE]

NoDue == [called |-> FALSE, at |-> 0, ready |-> <<>>]

InitState ==
    /\ now = StartTime
    /\ deduper = [seen |-> <<>>, in_progress |-> <<>>]
    /\ gwPc = "idle"
    /\ gwCur = NoReq
    /\ gwLast = NoLast
    /\ windows = {}
    /\ ddHist = NoDd
    /\ toGw = <<>>
    /\ toCl = <<>>
    /\ cPc = "idle"
    /\ cEnv = Envelope(None, None, None, None, None, 0, 0)
    /\ cAttempt = 0
    /\ cAttemptStart = 0
    /\ cLastProgress = 0
    /\ cResult = Envelope(None, None, None, None, None, 0, 0)
    /\ cHist = [polled |-> Envelope(None, None, None, None, None, 0, 0),
                discarded |-> FALSE]
    /\ spool = [entries |-> <<>>, file |-> <<>>]
    /\ dueRes = NoDue
    /\ active_chunks = <<>>
    /\ active_progress = <<>>
    /\ chunk_cache = <<>>
    /\ last_progress = <<>>
    /\ air = [n \in {Sender, Receiver} |-> <<>>]
    /\ reassembler = [n \in {Sender, Receiver} |-> NewReassembler]
    /\ delivered = [n \in {Sender, Receiver} |-> {}]
    /\ hist = NoHist

\* The transport as the gateway and the client construct it by default.
DefaultCfg == [enable_spool |-> FALSE, has_spool |-> FALSE, strategy |-> "window"]

InitCommon ==
    /\ InitState
    /\ cfg = DefaultCfg

GwDeliver ==
    /\ \E sender \in GwSenders, envelope \in GwEnvelopes : run_once_begin(sender, envelope)
    /\ UNCHANGED <<now, netVars, clientVars, spoolVars, trVars>>

GwFinish ==
    /\ \E outcome \in Outcomes, send_ok \in BOOLEAN : run_once_finish(outcome, send_ok)
    /\ UNCHANGED <<now, netVars, clientVars, spoolVars, trVars>>

GwTick == Tick /\ UNCHANGED <<dedupeVars, netVars, clientVars, spoolVars, trVars>>

NextGateway == GwDeliver \/ GwFinish \/ GwTick

SpecGateway == InitCommon /\ [][NextGateway]_vars

\* ---------------------------------------- specification: client and gateway
CStart ==
    /\ \E c \in {<<"test_echo", None>>, <<"complete_task", "t">>} : ClientStart(c[1], c[2])
    /\ UNCHANGED <<now, dedupeVars, netVars, spoolVars, trVars>>

CSend == ClientSend /\ UNCHANGED <<now, dedupeVars, spoolVars, trVars>>

CPoll == ClientPoll /\ UNCHANGED <<now, dedupeVars, spoolVars, trVars>>

CLoseToGw == NetLoseToGw /\ UNCHANGED <<now, dedupeVars, clientVars, spoolVars, trVars>>

CLoseToCl == NetLoseToCl /\ UNCHANGED <<now, dedupeVars, clientVars, spoolVars, trVars>>

CForeignToClient ==
    /\ \E e \in ForeignReplies : ForeignToClient(e)
    /\ UNCHANGED <<now, dedupeVars, clientVars, spoolVars, trVars>>

CForeignToGateway == ForeignToGateway /\ UNCHANGED <<now, dedupeVars, clientVars, spoolVars, trVars>>

\* run_once on the envelope the gateway's receive_message returns.
CGwReceive ==
    /\ toGw # <<>>
    /\ run_once_begin(Head(toGw).src, Head(toGw).env)
    /\ toGw' = Tail(toGw)
    /\ UNCHANGED <<now, toCl, clientVars, spoolVars, trVars>>

\* The response goes to the radio unless send_message raised.
CGwFinish ==
    /\ \E outcome \in Outcomes, send_ok \in BOOLEAN :
          /\ run_once_finish(outcome, send_ok)
          /\ IF send_ok
             THEN /\ Len(toCl) < MaxChan
                  /\ toCl' = Append(toCl, [src |-> GatewayNode,
                                           env |-> handle_request(gwCur.env, outcome)])
             ELSE toCl' = toCl
    /\ UNCHANGED <<now, toGw, clientVars, spoolVars, trVars>>

CTick == Tick /\ UNCHANGED <<dedupeVars, netVars, clientVars, spoolVars, trVars>>

NextClient ==
    \/ CStart \/ CSend \/ CPoll
    \/ CLoseToGw \/ CLoseToCl \/ CForeignToClient \/ CForeignToGateway
    \/ CGwReceive \/ CGwFinish \/ CTick

SpecClient == InitCommon /\ [][NextClient]_vars

\* ------------------------------------------ specification: check_keys alone
\* Key sets that share no key are checked in any order as time goes on.
DdKeySets == {<<"a">>, <<"b", "c">>, <<"d">>}

\* lease_seconds as given to the deduper's operations: absent, or one tick.
DdLeases == {0, 1}

SeqSet(seq) == {seq[i] : i \in 1..Len(seq)}

\* History: the leases [key, until, evicted] acquired and not released whose time is
\* still running after a call that took the deduper from before to after; evicted is
\* set once the key left in_progress through the max_entries bound.
LeaseNote(leases, before, after, t) ==
    {[l EXCEPT !.evicted = @ \/ (l.key \in Keys(purge_expired(before, t).in_progress)
                                            \ Keys(after.in_progress))] :
        l \in {x \in leases : x.until > t}}

\* History of a call on the deduper: priorOpen says that a key of the call was accepted
\* as new earlier and its lease time is still running, priorLive that such a key has
\* moreover not been evicted by the max_entries bound; leaseOpen and leaseLive say the
\* same of a lease acquired on a key of the call and not released.
DdNote(op, keys, lease, result, after) ==
    LET open == {w \in windows : w.key \in keys /\ now < w.until}
        held == {l \in ddHist.leases : l.key \in keys /\ now < l.until}
    IN  [op |-> op, at |-> now, keys |-> keys, lease |-> lease, result |-> result,
         priorOpen |-> open # {}, priorLive |-> \E w \in open : ~w.evicted,
         leases |-> LeaseNote(ddHist.leases, deduper, after, now),
         leaseOpen |-> held # {}, leaseLive |-> \E l \in held : ~l.evicted]

DdCheck ==
    /\ \E K \in DdKeySets, lease \in DdLeases :
          LET r == check_keys(deduper, K, lease, now)
              until == now + lease_or_default(lease)
              ws == NoteEvictions(windows, deduper, r.d, now)
          IN  /\ deduper' = r.d
              /\ ddHist' = DdNote("check_keys", SeqSet(K), lease, r.dup, r.d)
              /\ windows' =
                    IF r.dup THEN ws
                    ELSE {w \in ws : w.key \notin SeqSet(K)}
                         \cup {[key |-> k, until |-> until, held |-> until,
                                evicted |-> k \notin Keys(r.d.seen)] : k \in SeqSet(K)}
    /\ UNCHANGED <<now, gwPc, gwCur, gwLast, netVars, clientVars, spoolVars, trVars>>

DdClock == Tick /\ UNCHANGED <<dedupeVars, netVars, clientVars, spoolVars, trVars>>

NextCheckKeys == DdCheck \/ DdClock

SpecCheckKeys == InitCommon /\ [][NextCheckKeys]_vars

\* -------------------------------------------- specification: the leases
\* Leases are acquired and released on keys that check_keys is given as well.
DdLeaseKeys == {"a", "b", "d"}

DdAcquire ==
    /\ \E k \in DdLeaseKeys, lease \in {0} :
          LET r == acquire_lease(deduper, k, lease, now)
              note == DdNote("acquire_lease", {k}, lease, r.ok, r.d)
          IN  /\ deduper' = r.d
              /\ ddHist' =
                    IF ~r.ok THEN note
                    ELSE [note EXCEPT !.leases =
                            {l \in @ : l.key # k}
                            \cup {[key |-> k, until |-> now + lease_or_default(lease),
                                   evicted |-> FALSE]}]
    /\ UNCHANGED <<now, gwPc, gwCur, gwLast, windows, netVars, clientVars, spoolVars,
                   trVars>>

\* The matching release_lease of a lease acquired before.
DdRelease ==
    /\ \E k \in {l.key : l \in ddHist.leases}, remember \in BOOLEAN :
          LET d == release_lease(deduper, k, 0, now, remember)
              note == DdNote("release_lease", {k}, 0, remember, d)
          IN  /\ deduper' = d
              /\ ddHist' = [note EXCEPT !.leases = {l \in @ : l.key # k}]
    /\ UNCHANGED <<now, gwPc, gwCur, gwLast, windows, netVars, clientVars, spoolVars,
                   trVars>>

\* check_keys on a key set with a key that is leased at times.
DdLeaseCheck ==
    /\ \E K \in {<<"c", "a">>} :
          LET r == check_keys(deduper, K, 0, now)
          IN  /\ deduper' = r.d
              /\ ddHist' = DdNote("check_keys", SeqSet(K), 0, r.dup, r.d)
    /\ UNCHANGED <<now, gwPc, gwCur, gwLast, windows, netVars, clientVars, spoolVars,
                   trVars>>

NextLease == DdAcquire \/ DdRelease \/ DdLeaseCheck \/ DdClock

SpecLease == InitCommon /\ [][NextLease]_vars

\* --------------------------------------- specification: should_process
\* Requests [sender, envelope] are offered to should_process in any order: one id from
\* two senders, two ids with one correlation id, two ids from two senders for one task.
ShRequests ==
    {<<"n1", Envelope("a", "request", "test_echo", None, None, 0, 0)>>,
     <<"n2", Envelope("a", "request", "test_echo", None, None, 0, 0)>>,
     <<"n1", Envelope("a", "request", "test_echo", "k", None, 1, 0)>>,
     <<"n1", Envelope("b", "request", "test_echo", "k", None, 0, 0)>>,
     <<"n1", Envelope("a", "request", "complete_task", "k", "t", 0, 0)>>,
     <<"n2", Envelope("b", "request", "complete_task", None, "t", 0, 0)>>}

\* The secondary key of a request: the task semantic key when present, otherwise the
\* correlation key, otherwise none.
secondary_key(sender, envelope) ==
    LET keys == build_dedupe_keys(sender, envelope)
    IN  IF keys.semantic # NoKey THEN keys.semantic ELSE keys.correlation

\* The keys by which a request can be a duplicate of another.
request_keys(sender, envelope) ==
    {build_dedupe_keys(sender, envelope).message, secondary_key(sender, envelope)} \ {NoKey}

ShProcess ==
    /\ \E request \in ShRequests :
          LET sender == request[1]
              envelope == request[2]
              r == should_process(deduper, sender, envelope, now)
              K == request_keys(sender, envelope)
              until == now + lease_or_default(envelope.lease_seconds)
              ws == NoteEvictions(windows, deduper, r.d, now)
          IN  /\ deduper' = r.d
              /\ ddHist' = DdNote("should_process", K, envelope.lease_seconds,
                                  ~r.process, r.d)
              /\ windows' =
                    IF ~r.process THEN ws
                    ELSE {w \in ws : w.key \notin K}
                         \cup {[key |-> k, until |-> until, held |-> until,
                                evicted |-> Cardinality(K) > MaxEntries
                                            /\ k \notin Keys(r.d.seen)] : k \in K}
    /\ UNCHANGED <<now, gwPc, gwCur, gwLast, netVars, clientVars, spoolVars, trVars>>

NextShould == ShProcess \/ DdClock

SpecShould == InitCommon /\ [][NextShould]_vars

\* ------------------------------- specification: send_request as time goes on
\* The client against a radio that may hand it anything: replies of other
\* conversations, frames that carry its id, and the response it waits for.
LiveReplies ==
    ForeignReplies \cup {Envelope(RequestId, "response", "test_echo", None, None, 0, 0)}

LStart ==
    /\ ClientStart("test_echo", None)
    /\ UNCHANGED <<now, dedupeVars, netVars, spoolVars, trVars>>

LDeliver ==
    /\ \E e \in LiveReplies : ForeignToClient(e)
    /\ UNCHANGED <<now, dedupeVars, clientVars, spoolVars, trVars>>

\* The clock never stops. Up to MaxTime it counts; from then on time is measured
\* relative to now, the timestamps of the running wait moving back instead. Once a
\* deadline of the wait has passed, more time changes nothing the loop tests.
LClock ==
    /\ IF now < MaxTime
       THEN Tick /\ UNCHANGED <<cAttemptStart, cLastProgress>>
       ELSE /\ cPc = "wait"
            /\ ~wait_over(now, cLastProgress, cAttemptStart)
            /\ now' = now
            /\ cAttemptStart' = cAttemptStart - 1
            /\ cLastProgress' = cLastProgress - 1
    /\ UNCHANGED <<dedupeVars, netVars, cPc, cEnv, cAttempt, cResult, cHist, spoolVars,
                   trVars>>

NextClientLive ==
    \/ LStart \/ CSend \/ CPoll \/ CLoseToGw \/ CLoseToCl \/ LDeliver \/ LClock

\* The loop of send_request keeps running, radio.send returns, and time passes.
SpecClientLive ==
    /\ InitCommon
    /\ [][NextClientLive]_vars
    /\ WF_vars(CSend)
    /\ WF_vars(CPoll)
    /\ WF_vars(CLoseToGw)
    /\ WF_vars(LClock)

\* ------------------------------------------------- specification: the spool
SpEnvelopes ==
    {Message(id, "request", priority, 1) : id \in {IdA, IdB}, priority \in {0, 10}}

SpIds == {e.id : e \in SpEnvelopes}

\* The values callers pass to due: nothing, or a wall-clock time.
DueArgs == {0} \cup (StartTime..(MaxTime + 1))

SpAdd ==
    /\ \E e \in SpEnvelopes : spool' = add(spool, e, "dest", now)
    /\ dueRes' = NoDue
    /\ UNCHANGED <<now, dedupeVars, netVars, clientVars, trVars>>

SpMarkAttempt ==
    /\ \E id \in SpIds, j \in 0..Jitter :
          /\ id \in EntryIds(spool.entries) => EntryOf(spool.entries, id).attempts < MaxAttempts
          /\ spool' = mark_attempt(spool, id, now, j)
    /\ dueRes' = NoDue
    /\ UNCHANGED <<now, dedupeVars, netVars, clientVars, trVars>>

SpAck ==
    /\ \E id \in SpIds : spool' = ack(spool, id)
    /\ dueRes' = NoDue
    /\ UNCHANGED <<now, dedupeVars, netVars, clientVars, trVars>>

SpTouch ==
    /\ \E id \in SpIds : spool' = touch(spool, id, now)
    /\ dueRes' = NoDue
    /\ UNCHANGED <<now, dedupeVars, netVars, clientVars, trVars>>

SpDelayRetry ==
    /\ \E id \in SpIds, d \in 1..BaseDelay : spool' = delay_retry(spool, id, d, now)
    /\ dueRes' = NoDue
    /\ UNCHANGED <<now, dedupeVars, netVars, clientVars, trVars>>

SpDue ==
    /\ \E now_arg \in DueArgs :
          LET r == due(spool, now_arg, now)
          IN  /\ spool' = r.sp
              /\ dueRes' = [called |-> TRUE,
                            at |-> IF now_arg = 0 THEN now ELSE now_arg,
                            ready |-> r.ready]
    /\ UNCHANGED <<now, dedupeVars, netVars, clientVars, trVars>>

SpClock == Tick /\ UNCHANGED <<dedupeVars, netVars, clientVars, spoolVars, trVars>>

NextSpool ==
    \/ SpAdd \/ SpMarkAttempt \/ SpAck \/ SpTouch \/ SpDelayRetry \/ SpDue \/ SpClock

SpecSpool == InitCommon /\ [][NextSpool]_vars

\* --------------------------------------------- specification: the transport
TrEnvelopes ==
    {Message(IdA, "request", 10, SegmentSize + 1),
     Message(IdB, "request", 0, 1)}

Configs ==
    {[enable_spool |-> e, has_spool |-> p, strategy |-> st] :
        e \in BOOLEAN, p \in BOOLEAN, st \in Strategies}

\* The sender spools.
InitTransport == InitState /\ cfg \in {c \in Configs : c.enable_spool /\ c.has_spool}

otherVars == <<dedupeVars, netVars, clientVars, dueRes>>

TrEnqueue ==
    /\ hist.calls < MaxCalls
    /\ \E e \in TrEnvelopes : enqueue(e, Receiver, "enqueue")
    /\ UNCHANGED <<now, otherVars, cfg, active_chunks, active_progress, chunk_cache,
                   last_progress, reassembler, delivered>>

TrSendMessage ==
    /\ hist.calls < MaxCalls
    /\ \E e \in TrEnvelopes, send_ok \in BOOLEAN : send_message(e, Receiver, send_ok)
    /\ UNCHANGED <<now, otherVars, cfg, active_chunks, active_progress, chunk_cache,
                   last_progress, reassembler, delivered>>

TrTick ==
    /\ cfg.has_spool
    /\ \E send_ok \in BOOLEAN, jitter \in 0..Jitter : _tick_transmit(send_ok, jitter)
    /\ UNCHANGED <<now, otherVars, cfg, chunk_cache, last_progress, reassembler, delivered>>

TrSenderReceive ==
    /\ receive_message(Sender)
    /\ UNCHANGED <<now, otherVars, cfg, active_chunks, active_progress>>

TrReceiverReceive ==
    /\ receive_message(Receiver)
    /\ UNCHANGED <<now, otherVars, cfg, active_chunks, active_progress>>

\* The radio loses the frame at the head of a node's queue.
TrLose ==
    /\ \E n \in {Sender, Receiver} :
          /\ air[n] # <<>>
          /\ air' = [air EXCEPT ![n] = Tail(@)]
    /\ hist' = Fresh(hist)
    /\ UNCHANGED <<now, otherVars, spool, cfg, active_chunks, active_progress, chunk_cache,
                   last_progress, reassembler, delivered>>

TrClock ==
    /\ Tick
    /\ hist' = Fresh(hist)
    /\ UNCHANGED <<otherVars, spool, cfg, active_chunks, active_progress, chunk_cache,
                   last_progress, air, reassembler, delivered>>

\* Frames are lost here where the air is full (radio_send).
NextTransport ==
    \/ TrEnqueue \/ TrSendMessage \/ TrTick \/ TrSenderReceive \/ TrReceiverReceive
    \/ TrClock

SpecTransport == InitTransport /\ [][NextTransport]_vars

\* ------------------------------------ specification: enqueue and send_message
\* Envelopes of every kind are handed to a transport of any configuration.
SendEnvelopes ==
    TrEnvelopes \cup {Message(IdC, "response", 10, 1), Message(IdC, "ack", 10, 1),
                      Message(IdC, "error", 10, SegmentSize + 1)}

InitSend == InitState /\ cfg \in Configs

SdEnqueue ==
    /\ hist.calls < MaxCalls
    /\ \E e \in SendEnvelopes : enqueue(e, Receiver, "enqueue")
    /\ UNCHANGED <<now, otherVars, cfg, active_chunks, active_progress, chunk_cache,
                   last_progress, reassembler, delivered>>

SdSendMessage ==
    /\ hist.calls < MaxCalls
    /\ \E e \in SendEnvelopes, send_ok \in BOOLEAN : send_message(e, Receiver, send_ok)
    /\ UNCHANGED <<now, otherVars, cfg, active_chunks, active_progress, chunk_cache,
                   last_progress, reassembler, delivered>>

NextSend == SdEnqueue \/ SdSendMessage \/ TrTick \/ TrReceiverReceive \/ TrLose

SpecSend == InitSend /\ [][NextSend]_vars

\* --------------------------------------------- specification: the reassembler
\* The chunks of two messages, one of three chunks and one of a single chunk, are fed
\* to one reassembler in any order, each chunk at most twice (a retransmission),
\* while the clock runs past the bucket TTL; the two ids share their first 8 bytes.
IdA2 == <<"aaaaaaaa", "2">>

RaMessages ==
    {Message(IdA, "request", 0, 2 * SegmentSize + 1),
     Message(IdA2, "request", 0, 1)}

ChunksOf(message) ==
    {chunk_envelope(message, SegmentSize)[i] :
        i \in 1..Len(chunk_envelope(message, SegmentSize))}

RaChunks == UNION {ChunksOf(m) : m \in RaMessages}

\* The id of the message a data chunk was cut from.
MessageIdOf(chunk) == chunk.payload[1].of.id

\* The clock of this specification advances by the base TTL at a time.
RaStep == ChunkTtl

RaMaxTime == StartTime + 2 * RaStep

Count(f, k) == IF k \in DOMAIN f THEN f[k] ELSE 0

RaFeed ==
    /\ \E chunk \in RaChunks \ hist.ra.again :
          LET r == add_chunk(reassembler[Receiver], chunk, now)
              id == MessageIdOf(chunk)
              h == hist.ra
              sh == IF chunk \in h.fed THEN [r |-> h.shadow, complete |-> FALSE,
                                             message |-> NoMessage]
                    ELSE LET x == add_chunk(h.shadow, chunk, now)
                         IN  [r |-> x.r, complete |-> x.complete, message |-> x.message]
          IN  /\ reassembler' = [reassembler EXCEPT ![Receiver] = r.r]
              /\ hist' = [hist EXCEPT !.ra =
                    [fed |-> h.fed \cup {chunk},
                     again |-> h.again \cup ({chunk} \cap h.fed),
                     since |-> IF id \in DOMAIN h.since THEN h.since
                               ELSE FnSet(h.since, id, now),
                     out |-> IF r.complete THEN h.out \cup {r.message} ELSE h.out,
                     shadow |-> sh.r,
                     shadowOut |-> IF sh.complete THEN h.shadowOut \cup {sh.message}
                                   ELSE h.shadowOut,
                     extra |-> h.extra \/ (chunk \in h.fed /\ r.complete),
                     last |-> [fed |-> TRUE, chunk_id |-> chunk.id, of |-> id,
                               seq |-> chunk.seq, at |-> now,
                               message |-> r.message, complete |-> r.complete,
                               raised |-> r.raised, missing |-> r.missing,
                               received |-> IF chunk.id \in DOMAIN r.r.buckets
                                            THEN DOMAIN r.r.buckets[chunk.id].received
                                            ELSE {},
                               unforced |-> missing_sequences(r.r, chunk.id, FALSE),
                               forced |-> missing_sequences(r.r, chunk.id, TRUE)]]]
    /\ UNCHANGED <<now, dedupeVars, netVars, clientVars, spoolVars, cfg, active_chunks,
                   active_progress, chunk_cache, last_progress, air, delivered>>

RaPrune ==
    /\ reassembler' = [reassembler EXCEPT ![Receiver] = prune(@, now)]
    /\ hist' = [hist EXCEPT !.ra.shadow = prune(@, now), !.ra.last = NoFeed]
    /\ UNCHANGED <<now, dedupeVars, netVars, clientVars, spoolVars, cfg, active_chunks,
                   active_progress, chunk_cache, last_progress, air, delivered>>

RaClock ==
    /\ now < RaMaxTime
    /\ now' = now + RaStep
    /\ UNCHANGED <<dedupeVars, netVars, clientVars, spoolVars, trVars>>

NextReassembly == RaFeed \/ RaPrune \/ RaClock

SpecReassembly == InitCommon /\ [][NextReassembly]_vars

\* ------------------------------------------ specification: receive_message
\* A spooling transport with any strategy is handed datagrams of every kind by the
\* radio: data chunks, a chunk with a good header and a payload that decodes to nothing,
\* a datagram without a readable header, a NACK, and the ACK frames the strategies send.
RxStrategies == {"none", "simple", "stage", "window"}

AckTags == {"", "all_received", "bitmap_req", "announce", "complete", "announce_ack"}

Undecodable ==
    [chunk_envelope(Message(IdC, "request", 0, SegmentSize + 1), SegmentSize)[2]
        EXCEPT !.seq = 1, !.total = 1]

DataFrames == ChunksOf(Message(IdB, "request", 0, SegmentSize + 1)) \cup {Undecodable}

AckFrames == {build_ack_chunk(Text(tag, IdA), <<>>) : tag \in AckTags}

NackFrame == build_nack_chunk(short_id(IdA), <<1>>)

InitReceive ==
    /\ InitState
    /\ cfg \in {[enable_spool |-> TRUE, has_spool |-> TRUE, strategy |-> st] :
                   st \in RxStrategies}

\* The transport is given one request to send, which the ACK frames name.
RxEnqueue ==
    /\ hist.calls = 0
    /\ enqueue(Message(IdA, "request", 10, 1), Receiver, "enqueue")
    /\ UNCHANGED <<now, otherVars, cfg, active_chunks, active_progress, chunk_cache,
                   last_progress, reassembler, delivered>>

\* radio.receive has a datagram for the transport.
RxArrive ==
    /\ Len(air[Sender]) < MaxAir
    /\ \/ \E d \in DataFrames :
             air' = [air EXCEPT ![Sender] = Append(@, [from |-> Receiver, chunk |-> d])]
       \/ \E d \in AckFrames :
             air' = [air EXCEPT ![Sender] = Append(@, [from |-> Receiver, chunk |-> d])]
       \/ \E d \in {NackFrame} :
             air' = [air EXCEPT ![Sender] = Append(@, [from |-> Receiver, chunk |-> d])]
       \/ \E d \in {Malformed} :
             air' = [air EXCEPT ![Sender] = Append(@, [from |-> Receiver, chunk |-> d])]
    /\ hist' = Fresh(hist)
    /\ UNCHANGED <<now, otherVars, spool, cfg, active_chunks, active_progress, chunk_cache,
                   last_progress, reassembler, delivered>>

\* The loop that calls receive_message (run_forever) runs until a call raises.
RxReceive ==
    /\ ~hist.rxRaised
    /\ receive_message(Sender)
    /\ UNCHANGED <<now, otherVars, cfg, active_chunks, active_progress>>

NextReceive == RxEnqueue \/ RxArrive \/ RxReceive

SpecReceive == InitReceive /\ [][NextReceive]_vars

\* The ACK payloads whose token the strategy knows: none knows no token, simple takes a
\* bare id, stage and window their own tokens.
Recognised(strategy, text) ==
    CASE strategy = "none" -> FALSE
      [] strategy = "simple" -> text.tag = ""
      [] strategy = "stage" ->
            text.tag \in {"announce", "complete", "all_received", "announce_ack"}
      [] OTHER -> text.tag \in {"bitmap_req", "all_received"}

\* ------------------------------------------------ specification: the codec
\* chunk_envelope and reconstruct_message applied to envelopes whose data holds long keys
\* of the alias table, short ones, other keys, timestamps and nested dicts.
ShortPayload == 40
LongPayload == 120

CodecData ==
    {Dict(<<>>),
     Dict(<<<<"color", Str("red")>>>>),
     Dict(<<<<"entity_id", Str("u1")>>>>),
     Dict(<<<<"e", Str("u1")>>>>),
     Dict(<<<<"entity_id", Str("u1")>>, <<"e", Str("u2")>>>>),
     Dict(<<<<"created_at", Str(TsFraction)>>>>),
     Dict(<<<<"created_at", Str(TsWhole)>>, <<"color", Str(TsFraction)>>>>),
     Dict(<<<<"tasks", Dict(<<<<"status", Str("done")>>, <<"name", Str("Task 1")>>>>)>>>>),
     Dict(<<<<"tasks", Dict(<<<<"s", Str("done")>>>>)>>>>)}

CodecMeta == {Dict(<<>>), Dict(<<<<"count", Str("2")>>, <<"e", Str("u1")>>>>)}

CodecEnvelopes ==
    {MessageEnvelope(IdA, "response", "list_tasks", priority, correlation_id, data, meta, size) :
        priority \in {0, 10}, correlation_id \in {None, "k"}, data \in CodecData,
        meta \in CodecMeta, size \in {ShortPayload, LongPayload}}

CodecSegments == {MIN_SEGMENT_SIZE, MAX_CHUNK_SIZE}

CdChunk ==
    /\ hist.lastCall.op = "none"
    /\ \E envelope \in CodecEnvelopes, segment_size \in CodecSegments :
          hist' = [hist EXCEPT !.lastCall =
                      [op |-> "chunk_envelope", env |-> envelope, returned |-> TRUE,
                       spooled |-> FALSE, handed |-> chunk_message(envelope, segment_size)]]
    /\ UNCHANGED <<now, otherVars, spool, cfg, active_chunks, active_progress, chunk_cache,
                   last_progress, air, reassembler, delivered>>

CdReconstruct ==
    /\ hist.lastCall.op = "chunk_envelope"
    /\ delivered[Receiver] = {}
    /\ LET chunks == hist.lastCall.handed
           segments == [i \in 1..Len(chunks) |-> chunks[i].payload]
           result == reconstruct_envelope(segments)
       IN  /\ result.ok
           /\ delivered' = [delivered EXCEPT ![Receiver] = {result.message}]
    /\ UNCHANGED <<now, otherVars, spool, cfg, active_chunks, active_progress, chunk_cache,
                   last_progress, air, reassembler, hist>>

NextCodec == CdChunk \/ CdReconstruct

SpecCodec == InitCommon /\ [][NextCodec]_vars


\* ------------------------------------------- specification: the chunk size
\* A transport with a configured segment size, spooling or not, sends one message whose
\* encoded payload is shorter or longer than a segment.
ConfiguredSizes == {200, 214, 220, 264, 300}

SizedPayloads == {100, 300}

InitSized ==
    /\ InitState
    /\ cfg \in {[enable_spool |-> spooling, has_spool |-> spooling, strategy |-> "none",
                 segment_size |-> size] :
                   spooling \in BOOLEAN, size \in ConfiguredSizes}

SzSendMessage ==
    /\ hist.calls = 0
    /\ \E size \in SizedPayloads : send_message(Message(IdA, "request", 10, size), Receiver, TRUE)
    /\ UNCHANGED <<now, otherVars, cfg, active_chunks, active_progress, chunk_cache,
                   last_progress, reassembler, delivered>>

NextSized == SzSendMessage \/ TrTick \/ TrLose

SpecSized == InitSized /\ [][NextSized]_vars


\* ---------------------------------------- specification: the strategy by name
\* A spooling transport constructed with a reliability name sends one two-chunk message.
StrategyNames ==
    {None, "", "none", "NONE", "simple", " Simple ", "ack", "ack_nack", "stage", "staged",
     "window", "selective", "selective_repeat", "window_fec", "window_parity",
     "selective_fec", "bogus"}

InitNamed ==
    /\ InitState
    /\ cfg \in {[enable_spool |-> TRUE, has_spool |-> TRUE, name |-> name,
                 strategy |-> strategy_from_name(name)] : name \in StrategyNames}

NmEnqueue ==
    /\ hist.calls = 0
    /\ enqueue(Message(IdA, "request", 10, SegmentSize + 1), Receiver, "enqueue")
    /\ UNCHANGED <<now, otherVars, cfg, active_chunks, active_progress, chunk_cache,
                   last_progress, reassembler, delivered>>

NextNamed == NmEnqueue \/ TrTick \/ TrLose

SpecNamed == InitNamed /\ [][NextNamed]_vars


\* --------------------------------------- specification: loading the spool
\* A spool is constructed on a file and then used.
StoredEntry ==
    [id |-> IdA, envelope |-> to_dict(Message(IdA, "request", 10, 1)), destination |-> "dest",
     attempts |-> 1, next_retry |-> StartTime, created_at |-> StartTime,
     last_activity |-> StartTime, priority |-> 10]

OldEntry ==
    [id |-> IdB, envelope |-> to_dict(Message(IdB, "request", 0, 1)), destination |-> "dest",
     attempts |-> 0, next_retry |-> StartTime, created_at |-> StartTime, priority |-> 0]

SpoolFiles ==
    {SpoolFile(kind, <<>>) :
        kind \in {"missing", "unreadable", "not_utf8", "not_json", "json_list", "no_entries",
                  "entries_list", "entry_number", "entry_fields", "entries"}}
    \cup {SpoolFile("entries", <<StoredEntry>>), SpoolFile("entries", <<OldEntry>>),
          SpoolFile("entries", <<StoredEntry, OldEntry>>)}

Constructed == hist.lastCall.op = "PersistentSpool" /\ hist.lastCall.returned

LdConstruct ==
    /\ hist.lastCall.op = "none"
    /\ \E file \in SpoolFiles :
          LET loaded == _load(file)
          IN  /\ spool' = loaded.sp
              /\ hist' = [hist EXCEPT !.lastCall =
                            [op |-> "PersistentSpool", env |-> NoMessage,
                             returned |-> ~loaded.raised, spooled |-> FALSE,
                             handed |-> <<>>, file |-> file]]
    /\ UNCHANGED <<now, otherVars, cfg, active_chunks, active_progress, chunk_cache,
                   last_progress, air, reassembler, delivered>>

LdAdd == Constructed /\ SpAdd

LdMarkAttempt == Constructed /\ SpMarkAttempt

LdAck == Constructed /\ SpAck

NextLoad == LdConstruct \/ LdAdd \/ LdMarkAttempt \/ LdAck

SpecLoad == InitCommon /\ [][NextLoad]_vars


\* ------------------------------------- specification: sender and receiver
\* A spooling sender and a receiver with the stage, window or window_fec strategy exchange
\* one three-chunk message; the radio holds two frames per node and loses any of them.
ExStrategies == {"stage", "window", "window_fec"}

ExMessage == Message(IdA, "request", 10, 2 * SegmentSize + 1)

InitExchange ==
    /\ InitState
    /\ cfg \in {[enable_spool |-> TRUE, has_spool |-> TRUE, strategy |-> strategy,
                 air_capacity |-> MaxAir + 1] : strategy \in ExStrategies}

ExEnqueue ==
    /\ hist.calls = 0
    /\ enqueue(ExMessage, Receiver, "enqueue")
    /\ UNCHANGED <<now, otherVars, cfg, active_chunks, active_progress, chunk_cache,
                   last_progress, reassembler, delivered>>

NextExchange == ExEnqueue \/ TrTick \/ TrSenderReceive \/ TrReceiverReceive \/ TrLose

SpecExchange == InitExchange /\ [][NextExchange]_vars


\* The same exchange when the loop that calls tick keeps running.
SpecExchangeLive ==
    /\ InitExchange
    /\ [][NextExchange]_vars
    /\ WF_vars(TrTick)


\* ------------------------------------------ specification: the NACK throttle
\* The chunks of one six-chunk message reach the reassembler in any order, each at most
\* once usefully, as time passes.
NkMessage == Message(IdA, "request", 0, 5 * SegmentSize + 1)

NkFeed ==
    /\ ~hist.throttle.done
    /\ \E chunk \in ChunksOf(NkMessage) :
          LET r == add_chunk(reassembler[Receiver], chunk, now)
              th == hist.throttle
          IN  /\ reassembler' = [reassembler EXCEPT ![Receiver] = r.r]
              /\ hist' = [hist EXCEPT !.throttle =
                    [nacked |-> IF r.missing # <<>> THEN FnSet(th.nacked, r.missing, now)
                                ELSE th.nacked,
                     missing |-> r.missing,
                     at |-> now,
                     prev |-> IF r.missing \in DOMAIN th.nacked THEN th.nacked[r.missing]
                              ELSE -1,
                     done |-> r.complete]]
    /\ UNCHANGED <<now, dedupeVars, netVars, clientVars, spoolVars, cfg, active_chunks,
                   active_progress, chunk_cache, last_progress, air, delivered>>

NkClock == Tick /\ UNCHANGED <<dedupeVars, netVars, clientVars, spoolVars, trVars>>

NextNack == NkFeed \/ NkClock

SpecNack == InitCommon /\ [][NextNack]_vars


\* ------------------------------------ specification: the receive loop and buckets
\* Chunks of a three-chunk and of a one-chunk message arrive at the receiver in any
\* order, or never; its receive loop takes what the radio has while the clock runs past
\* the bucket TTL.
BkMessages ==
    {Message(IdA, "request", 0, 2 * SegmentSize + 1),
     Message(IdB, "request", 0, 1)}

BkChunks == UNION {ChunksOf(m) : m \in BkMessages}

\* radio.receive has a chunk for the receiver.
BkArrive ==
    /\ Len(air[Receiver]) < MaxAir
    /\ \E d \in BkChunks :
          air' = [air EXCEPT ![Receiver] = Append(@, [from |-> Sender, chunk |-> d])]
    /\ hist' = Fresh(hist)
    /\ UNCHANGED <<now, otherVars, spool, cfg, active_chunks, active_progress, chunk_cache,
                   last_progress, reassembler, delivered>>

\* Time passes while the loop polls the radio: a pass that finds no frame (received is
\* None) changes nothing.
BkClock ==
    /\ now < RaMaxTime
    /\ now' = now + RaStep
    /\ hist' = Fresh(hist)
    /\ UNCHANGED <<otherVars, spool, cfg, active_chunks, active_progress, chunk_cache,
                   last_progress, air, reassembler, delivered>>

NextBuckets == BkArrive \/ TrReceiverReceive \/ BkClock

SpecBuckets == InitCommon /\ [][NextBuckets]_vars

\* Time keeps passing. The loop keeps running as well: where the radio has no frame
\* for it, each of its passes changes nothing.
SpecBucketsLive == InitCommon /\ [][NextBuckets]_vars /\ WF_vars(BkClock)

\* ------------------------------------ specification: the spool and its file
\* A spool is used while writes of its file may fail, and is constructed anew from the
\* file after a crash.
FlEnvelopes == {Message(IdA, "request", 10, 1), Message(IdB, "request", 0, 1)}

FlIds == {e.id : e \in FlEnvelopes}

\* What the writes of _flush do: all go through; makedirs or open raises OSError and the
\* file is as it was; json.dump raises OSError after open has truncated the file.
FlushOutcomes == {"written", "open_failed", "dump_failed"}

\* _flush with that outcome, called where the operation has flushed (flush(sp) put the
\* entries into sp.file): [file, torn]. The except clause logs the error and returns.
_flush(sp, old, outcome) ==
    CASE outcome = "written" -> [file |-> sp.entries, torn |-> FALSE]
      [] outcome = "open_failed" -> old
      [] OTHER -> [file |-> <<>>, torn |-> TRUE]

\* A spool operation with result sp, and the write it makes if it flushes.
FlOperation(op, sp, outcome) ==
    LET flushed == sp.file # spool.file
        disk == IF flushed THEN _flush(sp, [file |-> spool.file, torn |-> hist.flush.torn],
                                       outcome)
                ELSE [file |-> spool.file, torn |-> hist.flush.torn]
    IN  /\ ~flushed => outcome = "written"
        /\ spool' = [sp EXCEPT !.file = disk.file]
        /\ hist' = [hist EXCEPT !.flush =
                      [op |-> op, flushed |-> flushed, ok |-> flushed /\ outcome = "written",
                       torn |-> disk.torn,
                       stale |-> IF flushed THEN outcome # "written" ELSE @.stale]]
        /\ dueRes' = NoDue
        /\ UNCHANGED <<now, dedupeVars, netVars, clientVars, cfg, active_chunks,
                       active_progress, chunk_cache, last_progress, air, reassembler,
                       delivered>>

FlAdd ==
    \E e \in FlEnvelopes, outcome \in FlushOutcomes :
        FlOperation("add", add(spool, e, "dest", now), outcome)

FlMarkAttempt ==
    \E id \in FlIds, outcome \in FlushOutcomes :
        /\ id \in EntryIds(spool.entries) => EntryOf(spool.entries, id).attempts < MaxAttempts
        /\ FlOperation("mark_attempt", mark_attempt(spool, id, now, 0), outcome)

FlAck ==
    \E id \in FlIds, outcome \in FlushOutcomes :
        FlOperation("ack", ack(spool, id), outcome)

\* Progress is recorded for one of the messages.
FlTouch == FlOperation("touch", touch(spool, IdA, now), "written")

FlDelayRetry ==
    FlOperation("delay_retry", delay_retry(spool, IdA, BaseDelay, now), "written")

FlDue == \E outcome \in FlushOutcomes : FlOperation("due", due(spool, 0, now).sp, outcome)

\* The process dies and a new one constructs its spool on the file.
FlRestart ==
    /\ hist.flush.op \notin {"", "PersistentSpool"}
    /\ LET file == SpoolFile(IF hist.flush.torn THEN "not_json" ELSE "entries", spool.file)
       IN  FlOperation("PersistentSpool", _load(file).sp, "written")

\* The clock of this specification advances past the expiry at once.
FlClock ==
    /\ now + Expiry < MaxTime
    /\ now' = now + Expiry + 1
    /\ UNCHANGED <<dedupeVars, netVars, clientVars, spoolVars, trVars>>

NextFlush ==
    \/ FlAdd \/ FlMarkAttempt \/ FlAck \/ FlTouch \/ FlDelayRetry \/ FlDue \/ FlRestart
    \/ FlClock

SpecFlush == InitCommon /\ [][NextFlush]_vars

\* ------------------------------------ specification: the attempts of an entry
\* A sender with the simple strategy whose spool keeps an entry for as long as the
\* longest delay between two attempts, as the default expiry does and more; the clock runs until
\* an entry that has used up its attempts is old enough to be retried.
AtEnvelopes == {Message(IdA, "request", 10, 1), Message(IdB, "request", 0, 1)}

InitAttempts ==
    /\ InitState
    /\ cfg = [enable_spool |-> TRUE, has_spool |-> TRUE, strategy |-> "simple",
              expiry_seconds |-> LongExpiry]

AtEnqueue ==
    /\ hist.calls < MaxCalls
    /\ \E e \in AtEnvelopes : enqueue(e, Receiver, "enqueue")
    /\ UNCHANGED <<now, otherVars, cfg, active_chunks, active_progress, chunk_cache,
                   last_progress, reassembler, delivered>>

AtClock ==
    /\ now < LateTime
    /\ now' = now + 1
    /\ hist' = Fresh(hist)
    /\ UNCHANGED <<otherVars, spool, cfg, active_chunks, active_progress, chunk_cache,
                   last_progress, air, reassembler, delivered>>

NextAttempts == AtEnqueue \/ TrTick \/ TrSenderReceive \/ TrReceiverReceive \/ AtClock

SpecAttempts == InitAttempts /\ [][NextAttempts]_vars


\* ------------------------------------- specification: the entries due returns
\* The objects of the spool and of its caller, by address: a SpoolEntry refers to its
\* envelope dict, the envelope dict to its data mapping. dueRes holds the heap, the
\* addresses of the spool's entries in dict order (entries), the addresses of the
\* entries the latest due returned (ready) and the latest operation (op); spool holds
\* the values the spool's entries have.
HeapSize == 10

NoHeap == [called |-> FALSE, at |-> 0, ready |-> <<>>, heap |-> <<>>, entries |-> <<>>,
           op |-> ""]

\* The address of a new object.
new_object(heap) ==
    CHOOSE a \in 1..HeapSize : a \notin DOMAIN heap /\ \A b \in 1..(a - 1) : b \in DOMAIN heap

\* The value of the SpoolEntry at address a.
entry_value(heap, a) ==
    LET entry == heap[a]
        envelope == heap[entry.envelope]
    IN  [id |-> envelope.id,
         envelope |-> [id |-> envelope.id, type |-> envelope.type,
                       command |-> envelope.command, priority |-> envelope.priority,
                       data |-> heap[envelope.data].size],
         destination |-> entry.destination, attempts |-> entry.attempts,
         next_retry |-> entry.next_retry, created_at |-> entry.created_at,
         last_activity |-> entry.last_activity, priority |-> entry.priority]

entry_values(heap, addresses) == [i \in 1..Len(addresses) |-> entry_value(heap, addresses[i])]

\* The objects the spool and its caller still refer to.
reachable(heap, addresses) ==
    LET entries == {addresses[i] : i \in 1..Len(addresses)}
        envelopes == {heap[a].envelope : a \in entries}
        datas == {heap[a].data : a \in envelopes}
        kept == entries \cup envelopes \cup datas
    IN  [a \in kept |-> heap[a]]

\* add: envelope.to_dict() is a new dict that refers to the envelope's data mapping,
\* SpoolEntry(...) a new entry that refers to that dict.
add_objects(res, envelope, destination, t) ==
    LET data == new_object(res.heap)
        heap1 == FnSet(res.heap, data, [size |-> envelope.size])
        dict == new_object(heap1)
        heap2 == FnSet(heap1, dict, [id |-> envelope.id, type |-> envelope.type,
                                     command |-> envelope.command,
                                     priority |-> envelope.priority, data |-> data])
        entry == new_object(heap2)
        heap3 == FnSet(heap2, entry, [envelope |-> dict, destination |-> destination,
                                      attempts |-> 0, next_retry |-> t, created_at |-> t,
                                      last_activity |-> t, priority |-> envelope.priority])
    IN  [res EXCEPT !.heap = heap3, !.entries = Append(@, entry)]

\* SpoolEntry(envelope=dict(entry.envelope), ...): a new entry with the fields of the
\* stored one and a new dict with the items of the stored dict.
ready_entry(heap, stored) ==
    LET dict == new_object(heap)
        heap1 == FnSet(heap, dict, heap[heap[stored].envelope])
        entry == new_object(heap1)
    IN  [heap |-> FnSet(heap1, entry, [heap[stored] EXCEPT !.envelope = dict]),
         entry |-> entry]

RECURSIVE ready_entries(_, _)
ready_entries(heap, stored) ==
    IF stored = <<>> THEN [heap |-> heap, ready |-> <<>>]
    ELSE LET one == ready_entry(heap, Head(stored))
             rest == ready_entries(one.heap, Tail(stored))
         IN  [heap |-> rest.heap, ready |-> <<one.entry>> \o rest.ready]

\* due on the objects: the entries due purges go, the ready ones are copied in the
\* order due returns them; what the caller held of the call before is let go.
due_objects(res, sp, t) ==
    LET d == due(sp, 0, t)
        address(id) == CHOOSE a \in {res.entries[i] : i \in 1..Len(res.entries)} :
                           res.heap[res.heap[a].envelope].id = id
        kept == SelectSeq(res.entries, LAMBDA a : res.heap[res.heap[a].envelope].id
                                                    \in EntryIds(d.sp.entries))
        copies == ready_entries(reachable(res.heap, kept),
                                [i \in 1..Len(d.ready) |-> address(d.ready[i].id)])
    IN  [called |-> TRUE, at |-> t, ready |-> copies.ready, heap |-> copies.heap,
         entries |-> kept, op |-> "due"]

CpEnvelopes == {Message(IdA, "request", 10, 1), Message(IdB, "request", 0, 1)}

\* Before the first operation there is no object.
objects == IF "heap" \in DOMAIN dueRes THEN dueRes ELSE NoHeap

\* Every operation leaves in spool the values of the spool's entries.
CpOperation(op, res, flushed) ==
    /\ dueRes' = [res EXCEPT !.op = op]
    /\ spool' = [entries |-> entry_values(res.heap, res.entries),
                 file |-> IF flushed THEN entry_values(res.heap, res.entries)
                          ELSE spool.file]
    /\ UNCHANGED <<now, dedupeVars, netVars, clientVars, trVars>>

CpAdd ==
    \E e \in CpEnvelopes :
        /\ ~has(spool, e.id)
        /\ CpOperation("add", add_objects(objects, e, "dest", now), TRUE)
        /\ spool' = add(spool, e, "dest", now)

CpDue ==
    /\ CpOperation("due", due_objects(objects, spool, now), TRUE)
    /\ spool'.entries = due(spool, 0, now).sp.entries

\* entry.attempts = ... on an entry due has returned.
CpSetCounter ==
    \E i \in 1..Len(objects.ready) :
        /\ objects.heap[objects.ready[i]].attempts <= MaxAttempts
        /\ CpOperation("set_counter",
                       [objects EXCEPT !.heap[objects.ready[i]].attempts = MaxAttempts + 1],
                       FALSE)

\* entry.envelope["command"] = ... on an entry due has returned.
CpSetItem ==
    \E i \in 1..Len(objects.ready) :
        /\ objects.heap[objects.heap[objects.ready[i]].envelope].command = "test_echo"
        /\ CpOperation("set_item",
                       [objects EXCEPT !.heap[objects.heap[objects.ready[i]].envelope].command
                                          = "changed"],
                       FALSE)

\* entry.envelope["data"][...] = ... on an entry due has returned.
CpSetData ==
    \E i \in 1..Len(objects.ready) :
        LET data == objects.heap[objects.heap[objects.ready[i]].envelope].data
        IN  /\ objects.heap[data].size <= SegmentSize
            /\ CpOperation("set_data",
                           [objects EXCEPT !.heap[data].size = SegmentSize + 1], FALSE)

CpClock == Tick /\ UNCHANGED <<dedupeVars, netVars, clientVars, spoolVars, trVars>>

NextCopies == CpAdd \/ CpDue \/ CpSetCounter \/ CpSetItem \/ CpSetData \/ CpClock

SpecCopies == InitCommon /\ [][NextCopies]_vars


\* ------------------------------------ specification: the size of the deduper
\* Any sequence of check_keys, acquire_lease and release_lease calls on five keys, the
\* clock standing still so that no entry expires; ddHist notes the latest call and the
\* number of keys seen before it (held).
LmKeys == {"a", "b", "c", "d", "e"}
LmKeyLists == {<<"a">>, <<"a", "b", "c">>}
LmLeaseKeys == {"a", "b", "c"}

LmNote(op, keys, result) ==
    [op |-> op, keys |-> keys, result |-> result, held |-> Len(deduper.seen)]

LmCheck ==
    /\ \E K \in LmKeyLists :
          LET r == check_keys(deduper, K, 0, now)
          IN  /\ deduper' = r.d
              /\ ddHist' = LmNote("check_keys", SeqSet(K), r.dup)
    /\ UNCHANGED <<now, gwPc, gwCur, gwLast, windows, netVars, clientVars, spoolVars,
                   trVars>>

LmAcquire ==
    /\ \E k \in LmLeaseKeys :
          LET r == acquire_lease(deduper, k, 0, now)
          IN  /\ deduper' = r.d
              /\ ddHist' = LmNote("acquire_lease", {k}, r.ok)
    /\ UNCHANGED <<now, gwPc, gwCur, gwLast, windows, netVars, clientVars, spoolVars,
                   trVars>>

LmRelease ==
    /\ \E k \in LmKeys, remember \in BOOLEAN :
          /\ deduper' = release_lease(deduper, k, 0, now, remember)
          /\ ddHist' = LmNote("release_lease", {k}, remember)
    /\ UNCHANGED <<now, gwPc, gwCur, gwLast, windows, netVars, clientVars, spoolVars,
                   trVars>>

NextLimit == LmCheck \/ LmAcquire \/ LmRelease

SpecLimit == InitCommon /\ [][NextLimit]_vars


\* ------------------------------------ specification: concurrent check_keys
\* Two threads call check_keys once each, on key lists that share the key "a", while a
\* third party holds a lease on "d" at times. A call reads the clock (CkCall) and then,
\* holding the lock, runs the rest of check_keys with the time it has read (CkLocked);
\* the clock may run in between. ddHist holds, per thread, the call: its position (pc),
\* its keys and lease, the time it read (t) and, once it is done, the time at which it
\* held the lock (at), whether a listed key
\* was in seen or in_progress as _purge_expired left them (hit), its answer (dup), the
\* keys seen before and after, and the number (order) of its turn with the lock.
Threads == {"T1", "T2"}

CkKeyLists ==
    [T1 |-> {<<"a">>, <<"a", "d">>, <<"a", "b", "c">>}, T2 |-> {<<"a">>, <<"c", "a">>}]

CkLeases == {0, 1}

NoCheck == [pc |-> "idle", keys |-> <<>>, lease |-> 0, t |-> 0, at |-> 0, hit |-> FALSE,
            dup |-> FALSE, before |-> {}, after |-> {}, order |-> 0]

\* Before the first call no thread has called.
checks == IF "T1" \in DOMAIN ddHist THEN ddHist ELSE [th \in Threads |-> NoCheck]

\* lease = lease_seconds or self._lease; now = self._now()
CkCall ==
    /\ \E th \in Threads, lease \in CkLeases :
          /\ checks[th].pc = "idle"
          /\ \E K \in CkKeyLists[th] :
                ddHist' = [checks EXCEPT ![th] = [@ EXCEPT !.pc = "called", !.keys = K,
                                                             !.lease = lease, !.t = now]]
    /\ UNCHANGED <<now, deduper, gwPc, gwCur, gwLast, windows, netVars, clientVars,
                   spoolVars, trVars>>

\* with self._lock: ... return
CkLocked ==
    /\ \E th \in Threads :
          /\ checks[th].pc = "called"
          /\ LET call == checks[th]
                 purged == purge_expired(deduper, call.t)
                 r == check_keys(deduper, call.keys, call.lease, call.t)
             IN  /\ deduper' = r.d
                 /\ ddHist' = [checks EXCEPT ![th] =
                       [call EXCEPT !.pc = "done",
                                    !.at = now,
                                    !.hit = SeqSet(call.keys)
                                              \cap (Keys(purged.seen) \cup Keys(purged.in_progress))
                                            # {},
                                    !.dup = r.dup,
                                    !.before = Keys(purged.seen),
                                    !.after = Keys(r.d.seen),
                                    !.order = 1 + Cardinality({o \in Threads :
                                                                  checks[o].pc = "done"})]]
    /\ UNCHANGED <<now, gwPc, gwCur, gwLast, windows, netVars, clientVars, spoolVars,
                   trVars>>

\* Another caller acquires a lease on "d".
CkAcquire ==
    /\ deduper.in_progress = <<>>
    /\ deduper' = acquire_lease(deduper, "d", 0, now).d
    /\ UNCHANGED <<now, gwPc, gwCur, gwLast, windows, ddHist, netVars, clientVars,
                   spoolVars, trVars>>

CkClock == Tick /\ UNCHANGED <<dedupeVars, netVars, clientVars, spoolVars, trVars>>

NextAtomic == CkCall \/ CkLocked \/ CkAcquire \/ CkClock

SpecAtomic == InitCommon /\ [][NextAtomic]_vars


\* ------------------------------------- specification: run_forever and stop
\* One thread calls run_forever, another calls stop() once, at any point.
RfEnvelopes ==
    {Envelope("a", "request", "test_echo", None, None, 0, 0),
     Envelope("b", "request", "test_echo", "k", None, 1, 0)}

RfStep(run) ==
    /\ hist' = [hist EXCEPT !.run = run]
    /\ UNCHANGED <<now, netVars, clientVars, spoolVars, cfg, active_chunks, active_progress,
                   chunk_cache, last_progress, air, reassembler, delivered>>

\* self._running = True
RfStart ==
    /\ hist.run.pc = "created"
    /\ RfStep([hist.run EXCEPT !.pc = "loop", !.running = TRUE])
    /\ UNCHANGED dedupeVars

\* while self._running:
RfTest ==
    /\ hist.run.pc = "loop"
    /\ RfStep([hist.run EXCEPT !.pc = IF hist.run.running THEN "run_once" ELSE "returned"])
    /\ UNCHANGED dedupeVars

\* run_once whose receive_message times out.
RfTimeout ==
    /\ hist.run.pc = "run_once"
    /\ gwPc = "idle"
    /\ RfStep([hist.run EXCEPT !.pc = "loop"])
    /\ UNCHANGED dedupeVars

\* run_once that receives a request; it returns unless it goes on to handle it.
RfDeliver ==
    /\ hist.run.pc = "run_once"
    /\ \E sender \in GwSenders, envelope \in RfEnvelopes : run_once_begin(sender, envelope)
    /\ RfStep([hist.run EXCEPT !.pc = IF gwPc' = "handling" THEN "run_once" ELSE "loop"])

RfFinish ==
    /\ hist.run.pc = "run_once"
    /\ \E outcome \in Outcomes, send_ok \in BOOLEAN : run_once_finish(outcome, send_ok)
    /\ RfStep([hist.run EXCEPT !.pc = "loop"])

\* stop(): self._running = False
RfStop ==
    /\ ~hist.run.stopped
    /\ RfStep([hist.run EXCEPT !.running = FALSE, !.stopped = TRUE])
    /\ UNCHANGED dedupeVars

RfClock ==
    /\ Tick
    /\ UNCHANGED <<dedupeVars, netVars, clientVars, spoolVars, trVars>>

NextStop == RfStart \/ RfTest \/ RfTimeout \/ RfDeliver \/ RfFinish \/ RfStop \/ RfClock

SpecStop == InitCommon /\ [][NextStop]_vars


\* ------------------------------------------------------------------ claims
ReplyTypes == {"response", "error"}

\* C1 (as stated): run_once invokes the handler only for an envelope of type request, and
\* never twice for the same (sender, command, id) while the dedupe lease of the first
\* acceptance is running.
C1_AsStated ==
    gwLast.verdict = "accepted" =>
        (gwLast.env.type = "request" /\ ~gwLast.repeat)

\* C1 (amended): run_once invokes the handler only for an envelope of type request, and a
\* second invocation for the same (sender, command, id) inside the lease window happens
\* only after the key was evicted from the deduper by its max_entries bound.
C1_Handler ==
    /\ gwPc = "handling" => (gwLast.verdict = "accepted" /\ gwCur.env = gwLast.env)
    /\ gwLast.verdict = "accepted" =>
          /\ gwLast.env.type = "request"
          /\ gwLast.repeat => gwLast.repeatEvicted

C1_Witness ==
    /\ gwPc = "handling"
    /\ gwLast.repeat
    /\ gwLast.repeatEvicted

\* A retry of the client's request, as run_once saw it last.
RetryAtGateway ==
    /\ gwLast.sender = ClientNode
    /\ gwLast.env.id = RequestId
    /\ gwLast.env.attempt > 0

\* C2 (as stated): a retry that reaches the gateway is accepted and answered, whether or
\* not an earlier attempt was processed.
C2_AsStated ==
    RetryAtGateway => gwLast.verdict = "accepted"

\* C2 (amended): a retry that reaches the gateway is accepted exactly when the deduper
\* holds none of its keys from an earlier accepted request (the earlier attempts were
\* lost on the way, or their entries expired or were evicted); it is then answered with
\* an envelope of the same id, which send_request returns when it arrives in time.  A
\* retry that arrives while an earlier accepted attempt is remembered is dropped.
C2_Retry ==
    /\ RetryAtGateway =>
          /\ gwLast.verdict = "accepted" <=> ~gwLast.priorLive
          /\ gwLast.verdict # "accepted" => gwLast.sent = <<>>
          /\ gwLast.sent # <<>> =>
                /\ gwLast.sent[1].dest = ClientNode
                /\ gwLast.sent[1].env.id = RequestId
                /\ gwLast.sent[1].env.type \in ReplyTypes
    /\ cPc = "returned" => cResult.id = RequestId

C2_Witness ==
    /\ RetryAtGateway
    /\ ~gwLast.priorAccepted
    /\ cPc = "returned"
    /\ cResult.attempt = 1

\* C3: send_request returns only an envelope that carries the request's id and has type
\* response or error; any other envelope it receives is discarded and the wait goes on.
C3_Filter ==
    /\ cPc = "returned" =>
          /\ cResult = cHist.polled
          /\ cResult.id = cEnv.id
          /\ cResult.type \in ReplyTypes
    /\ (cHist.polled.id # None /\ cPc # "returned") =>
          ~(cHist.polled.id = cEnv.id /\ cHist.polled.type \in ReplyTypes)
    /\ (cHist.polled.id # None /\ ~(cHist.polled.id = cEnv.id /\ cHist.polled.type \in ReplyTypes)) =>
          cPc \in {"wait", "send", "failed"}

C3_Witness ==
    /\ cPc = "returned"
    /\ cHist.discarded

\* C4: every run_once that acquired the lease has released it when it ends, whether the
\* handler returned, raised or timed out and whether or not the send failed; at that point
\* the key is in seen and acquire_lease for it succeeds.
C4_Release ==
    /\ [](gwPc = "idle" => deduper.in_progress = <<>>)
    /\ [][(gwPc = "handling" /\ gwPc' = "idle") =>
            /\ gwCur.key \notin Keys(deduper'.in_progress)
            /\ gwCur.key \in Keys(deduper'.seen)
            /\ acquire_lease(deduper', gwCur.key, gwCur.lease, now').ok]_vars

C4_Witness ==
    /\ gwPc = "idle"
    /\ gwLast.sent # <<>>
    /\ ~gwLast.sent[1].ok
    /\ gwLast.sent[1].env.type = "error"
    /\ gwLast.key \in Keys(deduper.seen)
    /\ deduper.in_progress = <<>>

\* C5: for every dispatched request exactly one envelope is handed to the transport, for
\* the requesting sender, of type response or error, with the request's id and
\* correlation_id; nothing is handed over for an envelope that was not dispatched.
C5_Reply ==
    /\ (gwLast.verdict # "accepted" \/ gwPc = "handling") => gwLast.sent = <<>>
    /\ (gwLast.verdict = "accepted" /\ gwPc = "idle") =>
          /\ Len(gwLast.sent) = 1
          /\ gwLast.sent[1].dest = gwLast.sender
          /\ gwLast.sent[1].env.type \in ReplyTypes
          /\ gwLast.sent[1].env.id = gwLast.env.id
          /\ gwLast.sent[1].env.correlation_id = gwLast.env.correlation_id

C5_Witness ==
    /\ gwLast.verdict = "accepted"
    /\ gwPc = "idle"
    /\ gwLast.sent[1].env.type = "error"
    /\ gwLast.sent[1].env.correlation_id = "k"

\* C10: due(now) returns exactly the entries the spool holds with attempts < max_attempts
\* and next_retry <= now, each once and as stored, ordered by priority ascending and then
\* next_retry ascending, whatever the order in which they were added.  (due first purges
\* the entries that have expired at now; the spool holds the others.)
C10_Due ==
    dueRes.called =>
        LET ready == dueRes.ready
            wanted == {e \in {spool.entries[i] : i \in 1..Len(spool.entries)} :
                          e.attempts < MaxAttempts /\ e.next_retry <= dueRes.at}
        IN  /\ {ready[i] : i \in 1..Len(ready)} = wanted
            /\ Len(ready) = Cardinality(wanted)
            /\ \A i, j \in 1..Len(ready) :
                  i < j =>
                     \/ ready[i].priority < ready[j].priority
                     \/ /\ ready[i].priority = ready[j].priority
                        /\ ready[i].next_retry <= ready[j].next_retry

C10_Witness ==
    /\ dueRes.called
    /\ Len(dueRes.ready) = 2
    /\ dueRes.ready[1] = spool.entries[2]
    /\ dueRes.ready[1].priority < dueRes.ready[2].priority
    /\ dueRes.ready[1].next_retry > dueRes.ready[2].next_retry

\* C6: when enqueue or send_message returns, the envelope is in the spool or all of
\* its chunks have been handed to the radio, whatever its type and whether or not the
\* transport spools. The code drops the envelope where it neither spools nor sends.
C6_AsStated ==
    (hist.lastCall.op # "none" /\ hist.lastCall.returned)
        => \/ hist.lastCall.spooled
           \/ hist.lastCall.handed = chunk_envelope(hist.lastCall.env, SegmentSize)

\* C7: with the simple or the window strategy, once the sender has handled the
\* completion ACK the receiver sent for a spooled message it reassembled, the spool does
\* not hold that id and neither a tick nor a NACK transmits a chunk of it again (until
\* the id is enqueued anew); and an entry leaves the spool only when its completion ACK
\* is handled or when it has expired.
C7_Acked ==
    /\ [](/\ hist.acked \cap EntryIds(spool.entries) = {}
          /\ \A id \in hist.acked :
                /\ \E d \in delivered[Receiver] : d.message.id = id
                /\ hist.lastTick.first # id
                /\ hist.lastNack.resent # <<>> => hist.lastNack.prefix # short_id(id))
    /\ [][\A id \in EntryIds(spool.entries) \ EntryIds(spool'.entries) :
             \/ id \in hist'.acked
             \/ now - EntryOf(spool.entries, id).last_activity > Expiry]_vars

\* The ACK of the two-chunk message has been handled and the sender has ticked since,
\* while the other message, not acknowledged, is still in the spool.
C7_Witness ==
    /\ IdA \in hist.acked
    /\ \E d \in delivered[Receiver] : d.message.id = IdA
    /\ hist.lastTick.ticked
    /\ IdB \in EntryIds(spool.entries)
    /\ EntryOf(spool.entries, IdB).attempts > 0

\* C8: a sender that has transmitted chunks of a multi-chunk message and receives a
\* NACK listing seqs of it retransmits exactly the listed seqs. The code never fills
\* the chunk cache the retransmission reads, so nothing is retransmitted.
C8_AsStated ==
    (/\ hist.lastNack.seen
     /\ hist.lastNack.missing # <<>>
     /\ \E id \in EntryIds(spool.entries) \cap DOMAIN hist.txLog :
            /\ short_id(id) = hist.lastNack.prefix
            /\ Len(create_chunks(from_dict(EntryOf(spool.entries, id).envelope))) > 1
            /\ \A i \in 1..Len(hist.lastNack.missing) :
                   hist.lastNack.missing[i] \in 1..Len(create_chunks(
                       from_dict(EntryOf(spool.entries, id).envelope))))
        => hist.lastNack.resent = hist.lastNack.missing

\* C9: a tick transmits at most one data chunk, of the first entry of due(); and the
\* chunks a message's attempt hands to the radio are 1, 2, ... in order, all of them
\* once the attempt is counted as complete.
C9_AsStated ==
    /\ hist.lastTick.ticked =>
          /\ Len(hist.lastTick.sent) <= 1
          /\ \A i \in 1..Len(hist.lastTick.sent) :
                 hist.lastTick.sent[i].id = short_id(hist.lastTick.first)
    /\ \A id \in DOMAIN hist.txLog :
          hist.txLog[id] = [i \in 1..Len(hist.txLog[id]) |-> i]
    /\ hist.lastAttempt.how = "complete" =>
          hist.lastAttempt.log = [i \in 1..hist.lastAttempt.total |-> i]

\* C11: send_request terminates. It makes at most max_retries + 1 send attempts, each
\* with the same envelope id; an iteration of the wait loop that finds timeout passed
\* since the last progress, or timeout + 60 s passed since the attempt began, ends the
\* wait; it returns only a matching response and raises the timeout failure only after
\* the last attempt; and once started it does return or raise.
C11_Terminates ==
    /\ [](/\ cAttempt \in 0..MaxRetries
          /\ \A i \in 1..Len(toGw) :
                toGw[i].src = ClientNode =>
                    toGw[i].env.id = RequestId /\ toGw[i].env.attempt \in 0..MaxRetries
          /\ cPc = "returned" => accepts(cResult, RequestId)
          /\ cPc = "failed" => cAttempt = MaxRetries)
    /\ [][/\ (cPc = "send" /\ cPc' = "wait") =>
                toGw' = Append(toGw, [src |-> ClientNode,
                                      env |-> [cEnv EXCEPT !.attempt = cAttempt]])
          /\ (/\ ClientPoll
              /\ \/ now >= cLastProgress + ClientTimeout
                 \/ now >= cAttemptStart + ClientTimeout + OverallExtra) =>
                (cPc' \in {"send", "failed"} /\ toCl' = toCl)
          /\ cPc' = "failed" => cPc \in {"wait", "failed"}]_vars
    /\ (cPc # "idle") ~> (cPc \in {"returned", "failed"})

\* Both attempts were made, an envelope was discarded on the way, and the call failed.
C11_Witness ==
    /\ cPc = "failed"
    /\ cAttempt = MaxRetries
    /\ cHist.discarded

C14_AsStated ==
    ddHist.op = "should_process" => (ddHist.result <=> ddHist.priorOpen)

\* C14 (amended): the same, provided the shared key has not been evicted from the seen
\* map by the max_entries bound in between; a request all of whose shared keys were
\* evicted is accepted again.
C14_ShouldProcess ==
    ddHist.op = "should_process" => (ddHist.result <=> ddHist.priorLive)

\* A request is rejected for its secondary key alone: its message key was never seen.
C14_Witness ==
    /\ ddHist.op = "should_process"
    /\ ddHist.result
    /\ ddHist.priorLive
    /\ \E k \in ddHist.keys : Len(k) = 3 /\ k[1] # "task" /\ k \notin Keys(deduper.seen)

\* C13 (as stated): while a lease acquired on a key is neither released nor run out,
\* acquire_lease on the key returns false and check_keys with the key reports a
\* duplicate, whatever other keys were leased in between.
C13_AsStated ==
    /\ (ddHist.op = "acquire_lease" /\ ddHist.leaseOpen) => ~ddHist.result
    /\ (ddHist.op = "check_keys" /\ ddHist.leaseOpen) => ddHist.result

\* C13 (amended): the same, unless the lease has been evicted from in_progress by the
\* max_entries bound; and acquire_lease returns false only against such a lease.
C13_Lease ==
    /\ ddHist.op = "acquire_lease" => (~ddHist.result <=> ddHist.leaseLive)
    /\ (ddHist.op = "check_keys" /\ ddHist.leaseLive) => ddHist.result
    /\ \A l \in ddHist.leases : ~l.evicted => l.key \in Keys(deduper.in_progress)

\* A second acquire_lease on a key is refused while other keys are leased as well.
C13_Witness ==
    /\ ddHist.op = "acquire_lease"
    /\ ~ddHist.result
    /\ ddHist.leaseLive
    /\ Cardinality(ddHist.leases) > 1


\* Every chunk of the message was fed, each once, none of them after the bucket TTL
\* had run out since the first, and no chunk of a message with the same short id.
FedOnce(message) ==
    LET h == hist.ra
    IN  /\ h.again \cap ChunksOf(message) = {}
        /\ \A c \in h.fed : c.id = short_id(message.id) => MessageIdOf(c) = message.id
        /\ h.last.at - Count(h.since, message.id)
              <= effective_ttl(Cardinality(ChunksOf(message)))

\* C15: the chunks of a message of N chunks being fed in any order, each once and within
\* the bucket TTL, add_chunk returns no envelope for the first N-1 of them and the
\* original envelope on the N-th.
C15_Reassembled ==
    \A m \in RaMessages :
        (hist.ra.last.fed /\ hist.ra.last.of = m.id /\ FedOnce(m)) =>
            /\ hist.ra.last.complete <=> ChunksOf(m) \subseteq hist.ra.fed
            /\ hist.ra.last.complete => hist.ra.last.message = m
            /\ ~hist.ra.last.raised

\* The three chunks of a message have been fed with the first one last and later than
\* the others, and that feed returned the envelope.
C15_Witness ==
    /\ hist.ra.last.complete
    /\ hist.ra.last.message.id = IdA
    /\ hist.ra.last.seq = 1
    /\ FedOnce(hist.ra.last.message)
    /\ hist.ra.last.at > Count(hist.ra.since, IdA)

\* C16 (as stated): feeding a chunk again, at any later point, changes neither the
\* envelopes returned nor the buckets: the reassembler has the buckets, and has returned
\* the envelopes, of one that was fed every chunk the first time only.
C16_AsStated ==
    /\ reassembler[Receiver].buckets = hist.ra.shadow.buckets
    /\ hist.ra.out = hist.ra.shadowOut
    /\ ~hist.ra.extra

\* C17: the missing list add_chunk_with_missing returns, and missing_sequences without
\* force, hold only seqs that are not received and lie below the highest seq received;
\* a seq beyond the highest received is listed by missing_sequences(force=true) alone.
C17_Missing ==
    LET l == hist.ra.last
        below == {seq \in 1..Max(l.received \cup {0}) : seq \notin l.received}
    IN  l.fed =>
            /\ SeqSet(l.missing) \subseteq below
            /\ SeqSet(l.unforced) \subseteq below
            /\ \A seq \in SeqSet(l.forced) : seq \notin l.received

\* After chunk 2 of 3 the missing list is [1], and chunk 3 is listed with force only.
C17_Witness ==
    /\ hist.ra.last.fed
    /\ hist.ra.last.missing = <<1>>
    /\ hist.ra.last.unforced = <<1>>
    /\ hist.ra.last.forced = <<1, 3>>

\* Every chunk of the message was fed within the bucket TTL of its first chunk.
AllDelivered(message) ==
    /\ ChunksOf(message) \subseteq hist.ra.fed
    /\ hist.ra.last.fed
    /\ hist.ra.last.at - Count(hist.ra.since, message.id)
          <= effective_ttl(Cardinality(ChunksOf(message)))

\* C18 (as stated): with the chunks of two messages whose ids share the first 8 bytes
\* interleaved, every envelope returned is one of the two messages, and each message
\* whose chunks were all delivered has been returned.
C18_AsStated ==
    /\ hist.ra.out \subseteq RaMessages
    /\ \A m \in RaMessages : AllDelivered(m) => m \in hist.ra.out


\* C19 (as stated): no received datagram makes receive_message fail, so the loop that
\* calls it goes on: a datagram with a valid header whose completed payload cannot be
\* decoded is discarded.
C19_AsStated ==
    /\ ~hist.rxRaised
    /\ hist.lastRx.seen => ~hist.lastRx.raised

\* C20 (as stated): an ACK-flagged frame whose payload token the installed strategy does
\* not recognise is not returned as a message, is not fed to the reassembler, and leaves
\* spool and chunk cache as they are, whatever the strategy.
C20_AsStated ==
    LET rx == hist.lastRx
    IN  (/\ rx.seen
         /\ parse_ok(rx.datagram)
         /\ HasFlag(IF parse_ok(rx.datagram) THEN rx.datagram.flags ELSE 0, FLAG_ACK)
         /\ ~Recognised(cfg.strategy, rx.datagram.payload)) =>
            /\ ~rx.returned
            /\ ~rx.fed
            /\ rx.kept


\* The value with the fractional seconds of every timestamp in it stripped, and with the
\* items of every dict in no order.
Plain(value) ==
    LET RECURSIVE plain(_)
        plain(v) == IF IsDict(v)
                    THEN [items |-> {<<v.items[i][1], plain(v.items[i][2])>> :
                                        i \in 1..Len(v.items)}]
                    ELSE Str(strip_fraction(v.str))
    IN  plain(value)

\* C21: reassembling the chunks of an envelope yields an envelope equal to it in id,
\* type, command, priority, correlation_id, data and meta, apart from stripped fractional
\* seconds.
C21_AsStated ==
    hist.lastCall.op = "chunk_envelope" =>
        \A message \in delivered[Receiver] :
            LET original == hist.lastCall.env
            IN  /\ message.id = original.id
                /\ message.type = original.type
                /\ message.command = original.command
                /\ message.priority = original.priority
                /\ message.correlation_id = original.correlation_id
                /\ Plain(message.data) = Plain(original.data)
                /\ Plain(message.meta) = Plain(original.meta)


\* C22: every data chunk the transport hands to the radio is at most 230 bytes long,
\* whatever the configured segment size, on the spooled and on the direct send path.
C22_AsStated ==
    \A chunk \in SeqSet(hist.lastTick.sent) \cup SeqSet(hist.lastCall.handed) :
        chunk.flags = 0 => HEADER_SIZE + Len(chunk.payload) <= MAX_CHUNK_SIZE


\* C23: strategy_from_name maps each of the names none, simple, stage, window and
\* window_fec to the strategy of that name, and every other or missing name to window.
C23_AsStated ==
    "name" \in DOMAIN cfg =>
        cfg.strategy = (IF cfg.name \in {"none", "simple", "stage", "window", "window_fec"}
                        THEN cfg.name ELSE "window")


\* C24: constructing a spool on a missing or malformed file never fails and yields an
\* empty spool, for content that is no valid JSON as well as for valid JSON that lacks the
\* expected entries / entry-field shape.
C24_AsStated ==
    (/\ hist.lastCall.op = "PersistentSpool"
     /\ hist.lastCall.file.kind \in {"missing", "not_utf8", "not_json", "json_list",
                                     "entries_list", "entry_number", "entry_fields"}) =>
        /\ hist.lastCall.returned
        /\ spool.entries = <<>>


\* The frame the latest pass of receive_message took at node n is an ACK frame with this
\* tag that the strategy consumed.
TookControl(n, tag) ==
    LET rx == hist.lastRx
    IN  /\ rx.seen
        /\ rx.node = n
        /\ rx.handled
        /\ parse_ok(rx.datagram)
        /\ HasFlag(IF parse_ok(rx.datagram) THEN rx.datagram.flags ELSE 0, FLAG_ACK)
        /\ rx.datagram.payload.tag = tag

\* The reply of the latest pass is one ACK frame with this text.
RepliedAck(text) ==
    LET out == hist.lastRx.out
    IN  /\ Len(out) = 1
        /\ HasFlag(out[1].flags, FLAG_ACK)
        /\ out[1].payload = text

\* The reply of the latest pass is one NACK frame for this short id listing these seqs.
RepliedNack(chunk_id, missing) ==
    LET out == hist.lastRx.out
    IN  /\ Len(out) = 1
        /\ HasFlag(out[1].flags, FLAG_NACK)
        /\ out[1].id = chunk_id
        /\ out[1].payload = missing

\* The node has delivered the message with this id.
Holds(n, id) == \E d \in delivered[n] : d.message.id = id

\* C25: with the stage strategy, a receiver that holds every chunk of id answers the
\* sender's complete|id with all_received|id, and the sender that receives the answer
\* removes id from its spool; a receiver that misses chunks of id answers with a NACK
\* listing all of them.
C25_AsStated ==
    cfg.strategy = "stage" =>
        /\ TookControl(Receiver, "complete") =>
              LET id == hist.lastRx.datagram.payload.arg
                  missing == missing_sequences(reassembler[Receiver], short_id(id), TRUE)
              IN  /\ Holds(Receiver, id) => RepliedAck(Text("all_received", id))
                  /\ (~Holds(Receiver, id) /\ missing # <<>>) =>
                        RepliedNack(short_id(id), missing)
        /\ TookControl(Sender, "all_received") => ~has(spool, ExMessage.id)


\* C26: with the window strategy, a receiver that gets bitmap_req|id while chunks of id
\* are missing replies with a NACK listing the first max_nack missing seqs, trailing ones
\* included, and replies all_received only when no chunk of id is missing.
C26_AsStated ==
    (Windowed(cfg.strategy) /\ TookControl(Receiver, "bitmap_req")) =>
        LET id == hist.lastRx.datagram.payload.arg
            missing == missing_sequences(reassembler[Receiver], short_id(id), TRUE)
            out == hist.lastRx.out
        IN  /\ missing # <<>> => RepliedNack(short_id(id), FirstN(missing, MaxNack))
            /\ (/\ Len(out) = 1
                /\ HasFlag(out[1].flags, FLAG_ACK)
                /\ out[1].payload.tag = "all_received") => Holds(Receiver, id)


\* C27: with the window_fec strategy, after all chunks of a message have been sent the
\* sender transmits the last chunk of that message once more.
C27_AsStated ==
    (/\ cfg.strategy = "window_fec"
     /\ hist.lastTick.ticked
     /\ hist.lastAttempt.how = "complete") =>
        \E i \in 1..Len(hist.lastTick.after) :
            LET frame == hist.lastTick.after[i]
            IN  /\ frame.flags = 0
                /\ frame.id = short_id(hist.lastAttempt.id)
                /\ frame.seq = hist.lastAttempt.total


\* The final chunk of the message has been handed to the radio and its active-send
\* state is still there.
FinalSent(id) ==
    /\ id \in DOMAIN active_progress
    /\ id \in DOMAIN active_chunks
    /\ active_progress[id] > Len(active_chunks[id])

\* The attempt of the message is closed: its cached chunks and cursor are gone.
Cleared(id) == id \notin DOMAIN active_progress /\ id \notin DOMAIN active_chunks

\* C28: after the final chunk of a spooled message has been transmitted, the tick that
\* calls on_chunks_sent and mark_attempt and clears the active-send state of the id
\* follows, whatever control frames are received in between.
C28_AsStated == FinalSent(ExMessage.id) ~> Cleared(ExMessage.id)


\* C29: for one message, add_chunk_with_missing never returns the same missing list
\* twice less than nack_interval seconds apart.
C29_AsStated ==
    LET th == hist.throttle
    IN  (th.missing # <<>> /\ th.prev >= 0) => th.at - th.prev >= NackInterval


\* C30: whenever a reassembly bucket is destroyed, the NACK throttle state of its short
\* id goes with it: a short id without a bucket has no last-NACK record and no per-seq
\* NACK counts.
C30_AsStated ==
    LET r == reassembler[Receiver]
    IN  \A chunk_id \in (DOMAIN r.nack_state) \cup (DOMAIN r.nack_counts) :
            chunk_id \notin DOMAIN r.buckets =>
                /\ chunk_id \notin DOMAIN r.nack_state
                /\ r.nack_counts[chunk_id] = <<>>


\* A bucket of the receiver's reassembler is past its TTL.
ExpiredBucket(id) ==
    /\ id \in DOMAIN reassembler[Receiver].buckets
    /\ now - reassembler[Receiver].buckets[id].created
           > reassembler[Receiver].buckets[id].ttl

\* C31: while the receive loop keeps running, a bucket whose TTL has passed is
\* eventually removed, also when no further chunk of its message arrives: from a state
\* with an expired bucket the loop reaches one where the bucket is gone, or one where
\* the radio holds a frame for it to take. Nothing in the transport calls prune, so the
\* bucket of a message that stays incomplete is kept.
C31_AsStated ==
    \A m \in BkMessages :
        ExpiredBucket(short_id(m.id)) ~>
            \/ short_id(m.id) \notin DOMAIN reassembler[Receiver].buckets
            \/ air[Receiver] # <<>>


\* C32 as stated: a chunk that arrives for a bucket past its TTL returns no envelope and
\* the bucket is removed, whichever chunk it is.
C32_AsStated ==
    [][\A id \in DOMAIN reassembler[Receiver].buckets :
          (/\ ExpiredBucket(id)
           /\ now' = now
           /\ hist'.ra.last.fed
           /\ hist'.ra.last.chunk_id = id)
              => /\ ~hist'.ra.last.complete
                 /\ id \notin DOMAIN reassembler'[Receiver].buckets]_vars

\* C32: a chunk that arrives for a bucket past its TTL returns no envelope, even when it
\* is the last missing one, and the bucket is removed unless it already holds a chunk
\* of that seq (the duplicate is dropped before the TTL is looked at).
C32_Expired ==
    [][\A id \in DOMAIN reassembler[Receiver].buckets :
          (/\ ExpiredBucket(id)
           /\ now' = now
           /\ hist'.ra.last.fed
           /\ hist'.ra.last.chunk_id = id)
              => /\ ~hist'.ra.last.complete
                 /\ hist'.ra.last.seq \notin DOMAIN reassembler[Receiver].buckets[id].received
                       => id \notin DOMAIN reassembler'[Receiver].buckets]_vars

\* The three chunks of a message have been fed once each and nothing else; the third
\* came after the TTL of the bucket the first two were in: it returned nothing and the
\* bucket is gone.
C32_Witness ==
    /\ hist.ra.fed = ChunksOf(Message(IdA, "request", 0, 2 * SegmentSize + 1))
    /\ hist.ra.again = {}
    /\ hist.ra.last.fed
    /\ hist.ra.last.seq = 3
    /\ hist.ra.last.at - Count(hist.ra.since, IdA) > effective_ttl(3)
    /\ ~hist.ra.last.complete
    /\ hist.ra.out = {}
    /\ short_id(IdA) \notin DOMAIN reassembler[Receiver].buckets


\* The file holds the entries of the memory but for what touch and delay_retry change.
SameButProgress(file, entries) ==
    /\ Len(file) = Len(entries)
    /\ \A i \in 1..Len(file) :
          /\ file[i].id = entries[i].id
          /\ file[i].envelope = entries[i].envelope
          /\ file[i].destination = entries[i].destination
          /\ file[i].attempts = entries[i].attempts
          /\ file[i].priority = entries[i].priority
          /\ file[i].created_at = entries[i].created_at

\* C33 as stated: after every add, mark_attempt, ack and expiry purge that changed the
\* spool the file holds exactly the entries of the memory, whatever became of the write.
C33_AsStated ==
    (hist.flush.op \in {"add", "mark_attempt", "ack", "due"} /\ hist.flush.flushed)
        => ~hist.flush.torn /\ spool.file = spool.entries

\* C33: after every add, mark_attempt, ack and expiry purge whose write of the file went
\* through, the file holds exactly the entries of the memory; while no write has failed
\* since, the file lacks only what touch and delay_retry changed; and a spool
\* constructed from a file that is whole holds the entries of the file.
C33_Flushed ==
    /\ (hist.flush.op \in {"add", "mark_attempt", "ack", "due"} /\ hist.flush.ok)
           => ~hist.flush.torn /\ spool.file = spool.entries
    /\ ~hist.flush.stale => ~hist.flush.torn /\ SameButProgress(spool.file, spool.entries)
    /\ (hist.flush.op = "PersistentSpool" /\ ~hist.flush.torn)
           => spool.entries = spool.file

\* A spool has been constructed anew from a file that every write reached, and holds
\* a message that was attempted and one that was not, without the progress recorded for
\* the first after its attempt.
C33_Witness ==
    /\ hist.flush.op = "PersistentSpool"
    /\ ~hist.flush.stale
    /\ EntryIds(spool.entries) = {IdA, IdB}
    /\ EntryOf(spool.entries, IdA).attempts = 1
    /\ EntryOf(spool.entries, IdA).last_activity < now
    /\ EntryOf(spool.entries, IdB).attempts = 0


\* The entry of message id has used up its attempts.
Exhausted(sp, id) == has(sp, id) /\ EntryOf(sp.entries, id).attempts >= MaxAttempts

\* C34: no entry counts more than max_attempts attempts; an entry whose counter has
\* reached max_attempts is not returned by due and not chosen by tick, and it stays in
\* the spool, has(id) true and counted by depth(), with its counter as it is, unless
\* the step acknowledges it or it has been inactive for longer than the expiry.
C34_Exhausted ==
    [][\A e \in AtEnvelopes :
          /\ has(spool, e.id) => EntryOf(spool.entries, e.id).attempts <= MaxAttempts
          /\ Exhausted(spool, e.id) =>
                /\ \A i \in 1..Len(due(spool, 0, now).ready) :
                      due(spool, 0, now).ready[i].id # e.id
                /\ hist'.lastTick.first # e.id
                /\ hist'.lastAttempt.id # e.id
                /\ \/ /\ Exhausted(spool', e.id)
                      /\ EntryOf(spool'.entries, e.id).attempts
                            = EntryOf(spool.entries, e.id).attempts
                      /\ depth(spool') >= 1
                   \/ /\ ~has(spool', e.id)
                      /\ \/ e.id \in hist'.acked
                         \/ now - EntryOf(spool.entries, e.id).last_activity > self_expiry]_vars

\* The single-chunk message has been attempted max_attempts times; a tick after that has
\* found nothing to send and has left the entry in the spool.
C34_Witness ==
    /\ Exhausted(spool, IdB)
    /\ EntryIds(spool.entries) = {IdB}
    /\ hist.lastTick.ticked
    /\ hist.lastTick.first = <<>>
    /\ EntryOf(spool.entries, IdB).next_retry <= now
    /\ depth(spool) = 1


\* C35: no change the caller makes to an entry due has returned, to its counters, to an
\* item of its envelope or to the data mapping of its envelope, changes an entry of the
\* spool.
C35_AsStated ==
    [][("op" \in DOMAIN dueRes' /\ dueRes'.op \in {"set_counter", "set_item", "set_data"})
          => spool'.entries = spool.entries]_vars


\* C36 as stated: after any sequence of check_keys, acquire_lease and release_lease
\* calls, seen and in_progress each hold at most max_entries entries.
C36_AsStated ==
    /\ Len(deduper.seen) <= MaxEntries
    /\ Len(deduper.in_progress) <= MaxEntries

\* C36: after any sequence of check_keys, acquire_lease and release_lease calls,
\* in_progress holds at most max_entries entries and seen at most twice max_entries;
\* seen holds at most max_entries after a check_keys that accepted its keys as new.
C36_Limit ==
    /\ Len(deduper.in_progress) <= MaxEntries
    /\ Len(deduper.seen) <= 2 * MaxEntries
    /\ (ddHist.op = "check_keys" /\ ~ddHist.result) => Len(deduper.seen) <= MaxEntries

\* A release_lease has found twice max_entries keys seen, has remembered one more and
\* has cut the keys seen down to max_entries, while max_entries leases are in progress.
C36_Witness ==
    /\ ddHist.op = "release_lease"
    /\ ddHist.result
    /\ ddHist.held = 2 * MaxEntries
    /\ Len(deduper.seen) = MaxEntries
    /\ Len(deduper.in_progress) = MaxEntries


\* C37 as stated: a check_keys call one of whose keys is in seen or in_progress answers
\* duplicate and inserts no key, any other call answers new and inserts all its keys;
\* of two concurrent calls that share a key exactly one answers new.
C37_AsStated ==
    /\ \A th \in Threads :
          checks[th].pc = "done" =>
             IF checks[th].hit
             THEN checks[th].dup /\ checks[th].after = checks[th].before
             ELSE ~checks[th].dup /\ SeqSet(checks[th].keys) \subseteq checks[th].after
    /\ (\A th \in Threads : checks[th].pc = "done") =>
          \E th \in Threads : \A o \in Threads : ~checks[o].dup <=> o = th

\* C37: a check_keys call one of whose keys is in seen or in_progress, as the purge at
\* the time the call read leaves them, answers duplicate and inserts no key; any other
\* call answers new and inserts all its keys, of which the last max_entries stay. Of
\* two concurrent calls that share a key at least one answers new, and both do only if
\* the lease of the first had run out when the second took the lock, or the first listed
\* more than max_entries keys.
C37_Atomic ==
    /\ \A th \in Threads :
          checks[th].pc = "done" =>
             IF checks[th].hit
             THEN checks[th].dup /\ checks[th].after = checks[th].before
             ELSE /\ ~checks[th].dup
                  /\ \A i \in 1..Len(checks[th].keys) :
                        i > Len(checks[th].keys) - MaxEntries
                           => checks[th].keys[i] \in checks[th].after
    /\ (\A th \in Threads : checks[th].pc = "done") =>
          /\ \E th \in Threads : ~checks[th].dup
          /\ \A first, second \in Threads :
                (/\ checks[first].order = 1
                 /\ checks[second].order = 2
                 /\ ~checks[first].dup
                 /\ ~checks[second].dup)
                   => \/ checks[first].t + lease_or_default(checks[first].lease)
                            <= checks[second].at
                      \/ Len(checks[first].keys) > MaxEntries

\* Both threads had read the clock before either took the lock; the first to take it was
\* answered new for the keys "c" and "a", the other duplicate for "a", while "d" is leased.
C37_Witness ==
    /\ \A th \in Threads : checks[th].pc = "done"
    /\ checks["T1"].keys = <<"a">>
    /\ checks["T2"].keys = <<"c", "a">>
    /\ checks["T1"].t = checks["T2"].t
    /\ checks["T2"].order = 1
    /\ ~checks["T2"].dup
    /\ checks["T2"].after = {"a", "c"}
    /\ checks["T1"].dup
    /\ checks["T1"].after = checks["T1"].before
    /\ Len(deduper.in_progress) = 1


\* C38: once the sender has received an ACK frame about a message, the progress
\* recorded under the first 8 bytes of that message's id is that frame, at that time.
C38_AsStated ==
    [][(/\ hist'.lastRx.seen
        /\ hist'.lastRx.node = Sender
        /\ parse_ok(hist'.lastRx.datagram)
        /\ HasFlag(hist'.lastRx.datagram.flags, FLAG_ACK))
          => LET prefix == short_id(hist'.lastRx.datagram.payload.arg)
             IN  /\ prefix \in DOMAIN last_progress'
                 /\ last_progress'[prefix].is_ack
                 /\ last_progress'[prefix].timestamp = now]_vars


\* C39: once stop() has been called, run_forever begins no further run_once: it ends the
\* run_once it is in, if any, and returns.
C39_AsStated ==
    [][(hist.run.stopped /\ hist.run.pc # "run_once") => hist'.run.pc # "run_once"]_vars


\* C40: tick applies mark_attempt to an entry only after a radio send failure or in an
\* attempt that has handed every chunk of the message to the radio.
C40_AsStated ==
    hist.lastAttempt.how # "none" =>
       \/ hist.lastAttempt.how = "failed"
       \/ \A seq \in 1..hist.lastAttempt.total :
             \E i \in 1..Len(hist.lastAttempt.log) : hist.lastAttempt.log[i] = seq

====
